---- MODULE Spec2Model ----
(***************************************************************************)
(* Model of the source-container assembler (source_build.py): the OCI     *)
(* image layout objects (Blob, Manifest, Index), deduplicate_sources,      *)
(* merge_image, the build pipeline and the image-reference helpers.        *)
(***************************************************************************)
EXTENDS Integers, Sequences, FiniteSets, TLC

(***************************************************************************)
(* Bounds                                                                  *)
(***************************************************************************)
MaxLayers == 2        \* layers of a manifest in the initial layouts
MaxTotal == 4         \* layers of the local manifest after merges
MaxOps == 4           \* calls a caller makes on the layout objects

(***************************************************************************)
(* Blob contents.  A file is a record [kind, fmt, obj]; a layer is a tar   *)
(* written by BuildSourceImage: a blob member, a symlink member and, for   *)
(* the extra-source driver, the first regular member of the linked tar.    *)
(* pad stands for tar metadata that differs between two archives of the    *)
(* same artefact.                                                          *)
(***************************************************************************)
LayerTar(blob, link, extra, pad) ==
    [kind |-> "layer", fmt |-> "tar",
     obj |-> [blob |-> blob, link |-> link, extra |-> extra, pad |-> pad]]

LayerUniverse ==
    { LayerTar("b1", "./rpm_dir/a.src.rpm", "", 0),
      LayerTar("b1", "./rpm_dir/a.src.rpm", "", 1),
      LayerTar("b2", "./extra_src_dir/extra-src-0.tar", "./pip/flask.tar.gz", 0),
      LayerTar("b3", "./rpm_dir/c.src.rpm", "", 0) }

\* hashlib.sha256(content).hexdigest() behind the "sha256:" prefix
Sha256(c) == [algo |-> "sha256", hex |-> c]

\* Path.stat().st_size of a file holding c
ContentSize(c) ==
    IF c.kind = "layer" THEN 3 + c.obj.pad
    ELSE IF c.kind = "manifest"
         THEN 2 + Len(c.obj.layers) + (IF c.fmt = "compact" THEN 0 ELSE 1)
         ELSE 2 + Len(c.obj.diff_ids) + Len(c.obj.history)
                + (IF c.fmt = "compact" THEN 0 ELSE 1)

MediaType(kind) == "application/vnd.oci.image." \o kind

DescriptorOf(c) ==
    [mediaType |-> MediaType(c.kind), digest |-> Sha256(c), size |-> ContentSize(c),
     annotations |-> "-"]

\* sha256 of the uncompressed layer, as recorded in rootfs.diff_ids
DiffIdOf(c) == [algo |-> "sha256", hex |-> [uncompressed |-> c.obj]]

(***************************************************************************)
(* File system of one layout: a function from digest to file content.      *)
(***************************************************************************)
WriteBytes(files, dg, c) ==
    [x \in (DOMAIN files) \cup {dg} |-> IF x = dg THEN c ELSE files[x]]

Unlink(files, dg) == [x \in (DOMAIN files) \ {dg} |-> files[x]]

PathExists(files, dg) == dg \in DOMAIN files

(***************************************************************************)
(* JSONBlob                                                                *)
(***************************************************************************)
compact_json_dumps(kind, obj) == [kind |-> kind, fmt |-> "compact", obj |-> obj]

to_python(c) == c.obj

(***************************************************************************)
(* Blob.save: raw is <<>> while the content was never read or set, <<c>>   *)
(* otherwise.  The result carries the descriptor of the returned blob, the *)
(* file system after the call and whether the blob returned is self.       *)
(***************************************************************************)
\* Blob.save that leaves the size of the old descriptor in the new one
BlobSaveKeepsSize(files, d, raw) ==
    IF raw = <<>> \/ Sha256(raw[1]).hex = d.digest.hex
    THEN [descriptor |-> d, files |-> files, self |-> TRUE]
    ELSE [descriptor |-> [d EXCEPT !.digest = Sha256(raw[1])],
          files |-> WriteBytes(files, Sha256(raw[1]), raw[1]),
          self |-> FALSE]

BlobSave(files, d, raw) ==
    IF raw = <<>>
    THEN [descriptor |-> d, files |-> files, self |-> TRUE]
    ELSE IF Sha256(raw[1]).hex = d.digest.hex
         THEN [descriptor |-> d, files |-> files, self |-> TRUE]
         ELSE LET new_d == [mediaType |-> d.mediaType,
                            digest |-> Sha256(raw[1]),
                            size |-> ContentSize(raw[1]),
                            annotations |-> d.annotations]
              IN [descriptor |-> new_d,
                  files |-> WriteBytes(files, new_d.digest, raw[1]),
                  self |-> FALSE]

(***************************************************************************)
(* Manifest.  A Manifest object is a record                                *)
(*   desc    its descriptor                                                *)
(*   py      to_python: [config, layers]                                   *)
(*   cfgdesc descriptor of the Config object, cfgpy its to_python          *)
(*   loaded  whether _layers was built, cache the Layer objects            *)
(***************************************************************************)
RemoveAt(s, i) == SubSeq(s, 1, i - 1) \o SubSeq(s, i + 1, Len(s))

NewLayer(d) == [descriptor |-> d, raw |-> <<>>]

OpenManifest(files, mdesc) ==
    LET py == to_python(files[mdesc.digest])
    IN [desc |-> mdesc, py |-> py,
        cfgdesc |-> py.config, cfgpy |-> to_python(files[py.config.digest]),
        loaded |-> FALSE, cache |-> <<>>]

\* Manifest.layers: the Layer objects are built on first access only
LoadLayers(m) ==
    IF m.loaded THEN m
    ELSE [m EXCEPT !.loaded = TRUE,
                   !.cache = [i \in 1..Len(m.py.layers) |-> NewLayer(m.py.layers[i])]]

\* Manifest._find_layer: first index whose entry equals the descriptor, 0 for -1
find_layer(layers, d) ==
    IF \E i \in 1..Len(layers) : layers[i] = d
    THEN CHOOSE i \in 1..Len(layers) :
            /\ layers[i] = d
            /\ \A j \in 1..(i - 1) : layers[j] # d
    ELSE 0

prepend_layer(m, d) == [m EXCEPT !.py.layers = <<d>> \o @]

\* remove_layer that leaves the history entry of the removed layer in the config
remove_layer_keeps_history(m, files, d) ==
    IF find_layer(m.py.layers, d) = 0 \/ ~PathExists(files, d.digest)
    THEN [ok |-> FALSE, m |-> m, files |-> files]
    ELSE [ok |-> TRUE,
          m |-> [m EXCEPT !.py.layers = RemoveAt(@, find_layer(m.py.layers, d)),
                          !.cfgpy.diff_ids = RemoveAt(@, find_layer(m.py.layers, d))],
          files |-> Unlink(files, d.digest)]

\* the body of remove_layer once idx is known: unlink, then the three deletions
RemoveLayerAt(m, files, d, idx) ==
    IF idx = 0 \/ ~PathExists(files, d.digest)
    THEN [ok |-> FALSE, m |-> m, files |-> files]
    ELSE IF idx > Len(m.cfgpy.diff_ids) \/ idx > Len(m.cfgpy.history)
         THEN [ok |-> FALSE,
               m |-> [m EXCEPT !.py.layers = RemoveAt(@, idx)],
               files |-> Unlink(files, d.digest)]
         ELSE [ok |-> TRUE,
               m |-> [m EXCEPT !.py.layers = RemoveAt(@, idx),
                               !.cfgpy.diff_ids = RemoveAt(@, idx),
                               !.cfgpy.history = RemoveAt(@, idx)],
               files |-> Unlink(files, d.digest)]

\* remove_layer that unlinks the blob of the layer before it looks the layer up
remove_layer_unlinks_first(m, files, d) ==
    IF find_layer(m.py.layers, d) = 0
    THEN [ok |-> FALSE, m |-> m, files |-> Unlink(files, d.digest)]
    ELSE RemoveLayerAt(m, files, d, find_layer(m.py.layers, d))

\* Manifest.remove_layer: ok is FALSE when the call raises
remove_layer(m, files, d) == RemoveLayerAt(m, files, d, find_layer(m.py.layers, d))

\* the loop of Manifest.save over self.layers, from cache entry i on
RECURSIVE SaveLayers(_, _, _, _)

\* end of one iteration: r is the result of layer.save()
SaveLayerReplace(cache, i, layers, idx, r) ==
    SaveLayers(cache, i + 1,
               IF r.descriptor # cache[i].descriptor
               THEN [layers EXCEPT ![idx] = r.descriptor]
               ELSE layers,
               IF r.descriptor # cache[i].descriptor
               THEN Unlink(r.files, cache[i].descriptor.digest)
               ELSE r.files)

\* one iteration: idx is the result of _find_layer(layer)
SaveLayerAt(cache, i, layers, files, idx) ==
    IF idx # 0 /\ ~PathExists(files, cache[i].descriptor.digest)
    THEN [ok |-> FALSE, layers |-> layers, files |-> files]
    ELSE IF idx = 0
         THEN SaveLayers(cache, i + 1, layers, files)
         ELSE SaveLayerReplace(cache, i, layers, idx,
                               BlobSave(files, cache[i].descriptor, cache[i].raw))

SaveLayers(cache, i, layers, files) ==
    IF i > Len(cache)
    THEN [ok |-> TRUE, layers |-> layers, files |-> files]
    ELSE SaveLayerAt(cache, i, layers, files, find_layer(layers, cache[i].descriptor))

\* Manifest.save, last step: s is the result of super().save()
ManifestSaveBlob(m, s) ==
    [ok |-> TRUE, m |-> m, files |-> s.files, descriptor |-> s.descriptor]

\* Manifest.save after the loop: l is the result of the loop over the layers
ManifestSaveJson(m, l) ==
    IF l.ok
    THEN ManifestSaveBlob([m EXCEPT !.py.layers = l.layers],
                          BlobSave(l.files, m.desc,
                                   <<compact_json_dumps("manifest",
                                        [m.py EXCEPT !.layers = l.layers])>>))
    ELSE [ok |-> FALSE, m |-> [m EXCEPT !.py.layers = l.layers], files |-> l.files,
          descriptor |-> m.desc]

\* Manifest.save after the config: m holds the config descriptor to write
ManifestSaveLayers(m, files) ==
    ManifestSaveJson(m, SaveLayers(m.cache, 1, m.py.layers, files))

\* Manifest.save after self.config.save(): c is its result
ManifestSaveConfig(m, c) ==
    ManifestSaveLayers(LoadLayers(IF c.descriptor # m.cfgdesc
                                  THEN [m EXCEPT !.py.config = c.descriptor]
                                  ELSE m),
                       c.files)

\* Manifest.save: descriptor is that of the returned blob
ManifestSave(m, files) ==
    ManifestSaveConfig(m, BlobSave(files, m.cfgdesc,
                                   <<compact_json_dumps("config", m.cfgpy)>>))

(***************************************************************************)
(* Index.save for the single manifest of the layout.  session is <<>> or   *)
(* <<m>>: Index._manifests is dropped when index.json was rewritten.       *)
(***************************************************************************)
\* Index.save writing index.json after every completed manifest.save()
IndexUpdateAlways(m, index, r) ==
    [ok |-> r.ok,
     files |-> r.files,
     index |-> IF r.ok THEN r.descriptor ELSE index,
     session |-> IF r.ok THEN <<>> ELSE <<r.m>>,
     written |-> r.ok]

\* r is the result of manifest.save()
IndexUpdate(m, index, r) ==
    [ok |-> r.ok,
     files |-> r.files,
     index |-> IF r.ok /\ r.descriptor # m.desc THEN r.descriptor ELSE index,
     session |-> IF r.ok /\ r.descriptor # m.desc THEN <<>> ELSE <<r.m>>,
     written |-> r.ok /\ r.descriptor # m.desc]

IndexSave(m, files, index) == IndexUpdate(m, index, ManifestSave(m, files))

(***************************************************************************)
(* BSILayer                                                                *)
(***************************************************************************)
\* a key made of the blob member and the symlink member, whatever the layer holds
hash_key_by_link(c) == <<c.obj.blob, c.obj.link>>

hash_key(c) ==
    LET artifact_name == IF c.obj.extra # "" THEN c.obj.extra ELSE c.obj.link
    IN <<c.obj.blob, artifact_name>>

(***************************************************************************)
(* State                                                                   *)
(***************************************************************************)
VARIABLES
    lfiles,     \* blobs/sha256 of the local source build: digest -> content
    lindex,     \* index.json of the local source build: its manifest descriptor
    pfiles,     \* blobs/sha256 of the downloaded parent sources
    pindex,     \* index.json of the parent sources
    session,    \* <<>> or <<m>>: the Manifest object held by the local Index
    failed,     \* an exception left the running operation
    last,       \* history variable: the operation just run and the manifest before it
    layerOf,    \* history variable: the layer each history entry was written for
    nops,       \* the number of calls made on the layout objects
    pc,         \* the step main() is at
    args,       \* the parsed command line
    bld,        \* local variables of build()
    build_result,
    ops,        \* the registry inspections issued so far (skopeo inspect)
    pushed,     \* the skopeo copies to docker:// destinations that succeeded
    digest_file,    \* content of the --digestfile of push_to_registry
    result_file,    \* <<>> or <<r>>: content of the --write-result-to file
    rc          \* return value of main(), -1 while it runs

layoutVars == <<lfiles, lindex, pfiles, pindex, session, failed, last, layerOf, nops>>

buildVars == <<pc, args, bld, build_result, ops, pushed, digest_file, result_file, rc>>

vars == <<layoutVars, buildVars>>

Range(s) == {s[i] : i \in 1..Len(s)}

SeqsUpTo(S, lo, hi) == UNION {[1..n -> S] : n \in lo..hi}

Min(S) == CHOOSE x \in S : \A y \in S : x <= y

\* an image layout as BuildSourceImage or skopeo writes it
ConfigOf(side, ls, fmt) ==
    [kind |-> "config", fmt |-> fmt,
     obj |-> [diff_ids |-> [i \in 1..Len(ls) |-> DiffIdOf(ls[i])],
              history |-> [i \in 1..Len(ls) |-> [created_by |-> side, n |-> i]]]]

ManifestOf(side, ls, fmt) ==
    [kind |-> "manifest", fmt |-> fmt,
     obj |-> [config |-> DescriptorOf(ConfigOf(side, ls, fmt)),
              layers |-> [i \in 1..Len(ls) |-> DescriptorOf(ls[i])]]]

LayoutFiles(side, ls, fmt) ==
    LET cs == Range(ls) \cup {ConfigOf(side, ls, fmt), ManifestOf(side, ls, fmt)}
    IN [dg \in {Sha256(c) : c \in cs} |-> dg.hex]

\* the manifest and the config that index.json of the local build points to
LocalManifest == to_python(lfiles[lindex.digest])
LocalConfig == to_python(lfiles[LocalManifest.config.digest])
ParentManifest == to_python(pfiles[pindex.digest])
ParentConfig == to_python(pfiles[ParentManifest.config.digest])

NoOp == [op |-> "none", layers |-> <<>>, diff_ids |-> <<>>, history |-> <<>>,
         files |-> {}, written |-> FALSE]

Snapshot(op) ==
    [op |-> op, layers |-> LocalManifest.layers, diff_ids |-> LocalConfig.diff_ids,
     history |-> LocalConfig.history, files |-> DOMAIN lfiles, written |-> FALSE]

\* the snapshot taken by a call on the layout objects: also the index, the config
\* descriptor and what the call before it was
LayoutSnapshot(op) ==
    [index |-> lindex, config |-> LocalManifest.config, prevop |-> last.op,
     prevwritten |-> last.written] @@ Snapshot(op)

NoArgs == [base_images |-> <<>>, registry_allowlist |-> {}, cachi2_artifacts_dir |-> FALSE,
           result_file |-> FALSE, output_binary_image |-> <<>>]

NoLocals ==
    [base_image |-> <<>>, candidate |-> <<>>, source_image |-> <<>>,
     parent_sources_dir |-> FALSE, base_digest |-> <<>>, binary_digest |-> <<>>,
     dest_images |-> <<>>,
     copied |-> 0, raised |-> <<>>]

\* the value build() gives build_result first
NewBuildResult ==
    [status |-> "success", dependencies_included |-> FALSE,
     base_image_source_included |-> FALSE, image_url |-> <<>>, image_digest |-> <<>>]

\* main() is not running
BuildIdle ==
    /\ pc = "idle"
    /\ args = NoArgs
    /\ bld = NoLocals
    /\ build_result = NewBuildResult
    /\ ops = <<>>
    /\ pushed = <<>>
    /\ digest_file = <<>>
    /\ result_file = <<>>
    /\ rc = -1

InitLayouts ==
    \E ll \in SeqsUpTo(LayerUniverse, 1, MaxLayers),
       pl \in SeqsUpTo(LayerUniverse, 0, MaxLayers),
       fmt \in {"compact", "pretty"} :
        /\ lfiles = LayoutFiles("local", ll, fmt)
        /\ lindex = DescriptorOf(ManifestOf("local", ll, fmt))
        /\ pfiles = LayoutFiles("parent", pl, "compact")
        /\ pindex = DescriptorOf(ManifestOf("parent", pl, "compact"))
        /\ layerOf = [h \in {[created_by |-> "local", n |-> i] : i \in 1..Len(ll)}
                            \cup {[created_by |-> "parent", n |-> i] : i \in 1..Len(pl)}
                        |-> IF h.created_by = "local" THEN ll[h.n] ELSE pl[h.n]]
        /\ session = <<>>
        /\ failed = FALSE
        /\ last = NoOp
        /\ nops = 0
        /\ BuildIdle

(***************************************************************************)
(* deduplicate_sources                                                     *)
(***************************************************************************)
Raised(files, index) ==
    [ok |-> FALSE, files |-> files, index |-> index, session |-> <<>>, written |-> FALSE]

\* the set of BSILayer objects of the parent manifest, as their hash keys
ParentBsiLayers(pf, pidx) ==
    {hash_key(pf[d.digest]) : d \in Range(OpenManifest(pf, pidx).py.layers)}

\* the layers at which the loop stops: one that cannot be opened or one that matches
DedupStops(lf, layers, parent_bsi_layers) ==
    {i \in 1..Len(layers) :
        \/ ~PathExists(lf, layers[i].descriptor.digest)
        \/ hash_key(lf[layers[i].descriptor.digest]) \in parent_bsi_layers}

\* local_source_build.index.save(), r being what the loop left
DedupSave(lidx, r) ==
    IF r.ok THEN IndexSave(r.m, r.files, lidx) ELSE Raised(r.files, lidx)

\* the loop of deduplicate_sources: remove_layer on the first match, then break
DedupLoop(lf, lidx, m, stops) ==
    DedupSave(lidx,
              IF stops = {}
              THEN [ok |-> TRUE, m |-> m, files |-> lf]
              ELSE IF ~PathExists(lf, m.cache[Min(stops)].descriptor.digest)
                   THEN [ok |-> FALSE, m |-> m, files |-> lf]
                   ELSE remove_layer(m, lf, m.cache[Min(stops)].descriptor))

DedupScan(lf, lidx, m, parent_bsi_layers) ==
    DedupLoop(lf, lidx, m, DedupStops(lf, m.cache, parent_bsi_layers))

deduplicate_sources(pf, pidx, lf, lidx) ==
    DedupScan(lf, lidx, LoadLayers(OpenManifest(lf, lidx)), ParentBsiLayers(pf, pidx))

Dedup ==
    /\ ~failed
    /\ session = <<>>
    /\ \E r \in {deduplicate_sources(pfiles, pindex, lfiles, lindex)} :
          /\ lfiles' = r.files
          /\ lindex' = r.index
          /\ failed' = ~r.ok
          /\ last' = [Snapshot("dedup") EXCEPT !.written = r.written]
    /\ UNCHANGED <<pfiles, pindex, session, layerOf, nops>>

(***************************************************************************)
(* merge_image                                                             *)
(***************************************************************************)
\* for x in src: dst.insert(0, x), the parent entries end up in reverse order
RECURSIVE InsertForward(_, _, _)
InsertForward(src, k, dst) ==
    IF k = 0 THEN dst ELSE InsertForward(src, k - 1, <<src[Len(src) - k + 1]>> \o dst)

\* for x in reversed(src): dst.insert(0, x)
RECURSIVE InsertReversed(_, _, _)
InsertReversed(src, k, dst) ==
    IF k = 0 THEN dst ELSE InsertReversed(src, k - 1, <<src[k]>> \o dst)

\* shutil.copyfile of every parent layer into the local blobs directory
RECURSIVE CopyLayers(_, _, _, _)
CopyLayers(pf, layers, k, lf) ==
    IF k = 0 THEN lf
    ELSE CopyLayers(pf, layers, k - 1,
                    WriteBytes(lf, layers[k].digest, pf[layers[k].digest]))

\* the three loops of merge_image and the save, pm and lm being the two manifests
MergeManifests(pf, lf, lidx, pm, lm) ==
    IF \E i \in 1..Len(pm.py.layers) : ~PathExists(pf, pm.py.layers[i].digest)
    THEN Raised(lf, lidx)
    ELSE IndexSave(
            [lm EXCEPT
                !.py.layers = InsertReversed(pm.py.layers, Len(pm.py.layers), @),
                !.cfgpy.diff_ids =
                    InsertReversed(pm.cfgpy.diff_ids, Len(pm.cfgpy.diff_ids), @),
                !.cfgpy.history =
                    InsertReversed(pm.cfgpy.history, Len(pm.cfgpy.history), @)],
            CopyLayers(pf, pm.py.layers, Len(pm.py.layers), lf),
            lidx)

merge_image(pf, pidx, lf, lidx) ==
    MergeManifests(pf, lf, lidx, OpenManifest(pf, pidx), OpenManifest(lf, lidx))

Merge ==
    /\ ~failed
    /\ session = <<>>
    /\ Len(LocalManifest.layers) + Len(ParentManifest.layers) <= MaxTotal
    /\ \E r \in {merge_image(pfiles, pindex, lfiles, lindex)} :
          /\ lfiles' = r.files
          /\ lindex' = r.index
          /\ failed' = ~r.ok
          /\ last' = [Snapshot("merge") EXCEPT !.written = r.written]
    /\ UNCHANGED <<pfiles, pindex, session, layerOf, nops>>

(***************************************************************************)
(* Specification of the two layout operations of the assembler, run in any *)
(* order on a local source build and the downloaded parent sources.        *)
(***************************************************************************)
InitAssemble == InitLayouts

NextAssemble == (Dedup \/ Merge) /\ UNCHANGED buildVars

SpecAssemble == InitAssemble /\ [][NextAssemble]_vars

\* the BSI identities of the parent layers
ParentIdentities == {hash_key(d.digest.hex) : d \in Range(ParentManifest.layers)}

\* the positions of the layers of a manifest that match a parent layer
Matching(layers) ==
    {i \in 1..Len(layers) : hash_key(layers[i].digest.hex) \in ParentIdentities}

(***************************************************************************)
(* C1: after any sequence of deduplicate_sources and merge_image calls the *)
(* saved local manifest has as many layers as its config has diff_ids and  *)
(* history entries, and entry i of each array belongs to the same layer.   *)
(***************************************************************************)
Aligned(manifest, config) ==
    /\ Len(manifest.layers) = Len(config.diff_ids)
    /\ Len(manifest.layers) = Len(config.history)
    /\ \A i \in 1..Len(manifest.layers) :
          /\ i <= Len(config.history)
          /\ i <= Len(config.diff_ids)
          /\ manifest.layers[i] = DescriptorOf(layerOf[config.history[i]])
          /\ config.diff_ids[i] = DiffIdOf(layerOf[config.history[i]])

C1_LayersStayAligned == Aligned(LocalManifest, LocalConfig)

\* a layer was removed from a manifest that holds merged parent layers
C1_Witness ==
    /\ last.op = "dedup"
    /\ ~failed
    /\ Len(LocalManifest.layers) + 1 = Len(last.layers)
    /\ \E i \in 1..Len(LocalConfig.history) : LocalConfig.history[i].created_by = "parent"
    /\ \E i \in 1..Len(LocalConfig.history) : LocalConfig.history[i].created_by = "local"

(***************************************************************************)
(* C3: one call of deduplicate_sources removes the first local layer whose *)
(* identity is among the parent identities and no other layer; without a   *)
(* match the local manifest keeps all its layers.                          *)
(***************************************************************************)
C3_RemovesFirstMatchOnly ==
    last.op = "dedup" =>
        IF Matching(last.layers) = {}
        THEN LocalManifest.layers = last.layers
        ELSE /\ LocalManifest.layers = RemoveAt(last.layers, Min(Matching(last.layers)))
             /\ Cardinality(Matching(LocalManifest.layers))
                    = Cardinality(Matching(last.layers)) - 1

(***************************************************************************)
(* C4: after merge_image the local layers, diff_ids and history are the    *)
(* parent's, in the parent's order, followed by the previous local ones,   *)
(* and every parent layer blob is in the local layout.                     *)
(***************************************************************************)
C4_MergePrependsParent ==
    last.op = "merge" =>
        /\ LocalManifest.layers = ParentManifest.layers \o last.layers
        /\ LocalConfig.diff_ids = ParentConfig.diff_ids \o last.diff_ids
        /\ LocalConfig.history = ParentConfig.history \o last.history
        /\ Len(LocalManifest.layers) = Len(last.layers) + Len(ParentManifest.layers)
        /\ \A d \in Range(ParentManifest.layers) :
              /\ PathExists(lfiles, d.digest)
              /\ lfiles[d.digest] = pfiles[d.digest]

\* two different parent layers were merged in front of a local layer
C4_Witness ==
    /\ last.op = "merge"
    /\ ~failed
    /\ Len(ParentManifest.layers) = 2
    /\ ParentManifest.layers[1] # ParentManifest.layers[2]
    /\ Len(last.layers) >= 1
    /\ LocalManifest.layers[1] = ParentManifest.layers[1]

(***************************************************************************)
(* Specification of the layout objects used directly: a caller takes the   *)
(* manifest of the local index, changes layers through it and saves the    *)
(* index.                                                                  *)
(***************************************************************************)
\* the layer archives of the layouts a caller works on
LayoutLayers ==
    { LayerTar("b1", "./rpm_dir/a.src.rpm", "", 0),
      LayerTar("b3", "./rpm_dir/c.src.rpm", "", 0) }

InitLayout ==
    /\ InitLayouts
    /\ Len(ParentManifest.layers) <= 1
    /\ \A d \in Range(LocalManifest.layers) \cup Range(ParentManifest.layers) :
          d.digest.hex \in LayoutLayers

\* index.manifests()[0]
Open ==
    /\ ~failed
    /\ nops < MaxOps
    /\ nops' = nops + 1
    /\ session = <<>>
    /\ session' = <<OpenManifest(lfiles, lindex)>>
    /\ last' = LayoutSnapshot("open")
    /\ UNCHANGED <<lfiles, lindex, pfiles, pindex, failed, layerOf>>

\* manifest.layers[i].raw_content = c
SetLayerContent ==
    /\ ~failed
    /\ nops < MaxOps
    /\ nops' = nops + 1
    /\ session # <<>>
    /\ \E m \in {LoadLayers(session[1])} :
          \E i \in 1..Len(m.cache), c \in LayoutLayers :
             session' = <<[m EXCEPT !.cache[i].raw = <<c>>]>>
    /\ last' = LayoutSnapshot("set")
    /\ UNCHANGED <<lfiles, lindex, pfiles, pindex, failed, layerOf>>

\* shutil.copyfile(parent layer blob, local blobs); manifest.prepend_layer(layer)
PrependLayer ==
    /\ ~failed
    /\ nops < MaxOps
    /\ nops' = nops + 1
    /\ session # <<>>
    /\ Len(session[1].py.layers) < MaxTotal
    /\ \E d \in Range(ParentManifest.layers) :
          /\ lfiles' = WriteBytes(lfiles, d.digest, pfiles[d.digest])
          /\ session' = <<prepend_layer(session[1], d)>>
    /\ last' = LayoutSnapshot("prepend")
    /\ UNCHANGED <<lindex, pfiles, pindex, failed, layerOf>>

\* manifest.remove_layer(layer), layer being manifest.layers[i] or, when saved, the
\* blob that manifest.layers[i].save() returned
RemoveLayer ==
    /\ ~failed
    /\ nops < MaxOps
    /\ nops' = nops + 1
    /\ session # <<>>
    /\ \E m \in {LoadLayers(session[1])} :
          \E i \in 1..Len(m.cache), saved \in BOOLEAN :
             \E layer \in {IF saved
                           THEN BlobSave(lfiles, m.cache[i].descriptor, m.cache[i].raw)
                           ELSE [descriptor |-> m.cache[i].descriptor, files |-> lfiles,
                                 self |-> TRUE]} :
                \E r \in {remove_layer(m, layer.files, layer.descriptor)} :
                   /\ session' = <<r.m>>
                   /\ lfiles' = r.files
                   /\ failed' = ~r.ok
                   /\ last' = [before |-> m, layer |-> layer.descriptor,
                               blobs |-> DOMAIN layer.files] @@ LayoutSnapshot("remove")
    /\ UNCHANGED <<lindex, pfiles, pindex, layerOf>>

\* self.manifests(): the Manifest object held, or a new one read from index.json
IndexManifest == IF session = <<>> THEN OpenManifest(lfiles, lindex) ELSE session[1]

\* index.save()
SaveIndex ==
    /\ ~failed
    /\ nops < MaxOps
    /\ nops' = nops + 1
    /\ \E r \in {IndexSave(IndexManifest, lfiles, lindex)} :
          /\ lfiles' = r.files
          /\ lindex' = r.index
          /\ session' = r.session
          /\ failed' = ~r.ok
          /\ last' = [LayoutSnapshot("save") EXCEPT !.written = r.written]
    /\ UNCHANGED <<pfiles, pindex, layerOf>>

NextLayout ==
    (Open \/ SetLayerContent \/ PrependLayer \/ RemoveLayer \/ SaveIndex) /\ UNCHANGED buildVars

SpecLayout == InitLayout /\ [][NextLayout]_vars

(***************************************************************************)
(* C2: after Index.save every layer descriptor of the saved manifest has a *)
(* blob file whose sha256 is the descriptor's digest and whose length is   *)
(* the descriptor's size, also when two descriptors carry the same digest. *)
(***************************************************************************)
LayerBlobsPresent ==
    \A d \in Range(LocalManifest.layers) :
        /\ PathExists(lfiles, d.digest)
        /\ Sha256(lfiles[d.digest]) = d.digest
        /\ ContentSize(lfiles[d.digest]) = d.size

C2_SavedLayersHaveBlobs == (last.op = "save" /\ ~failed) => LayerBlobsPresent

(***************************************************************************)
(* Image references.  A string is a sequence of tokens; the separators     *)
(* ":", "/", "@" and "-" are tokens of their own and no other token holds  *)
(* one of ":", "/", "@", so that splitting a string at a separator is      *)
(* splitting the sequence at that token.                                   *)
(***************************************************************************)
Max(S) == CHOOSE x \in S : \A y \in S : x >= y

Positions(str, t) == {i \in 1..Len(str) : str[i] = t}

\* str.split(t): the list of the parts between the occurrences of t
RECURSIVE Split(_, _)
Split(str, t) ==
    IF Positions(str, t) = {}
    THEN <<str>>
    ELSE LET i == Min(Positions(str, t))
         IN <<SubSeq(str, 1, i - 1)>> \o Split(SubSeq(str, i + 1, Len(str)), t)

\* str.rsplit(t, 1)
RSplit1(str, t) ==
    IF Positions(str, t) = {}
    THEN <<str>>
    ELSE LET i == Max(Positions(str, t))
         IN <<SubSeq(str, 1, i - 1), SubSeq(str, i + 1, Len(str))>>

\* str.replace(a, b)
Replace(str, a, b) == [i \in 1..Len(str) |-> IF str[i] = a THEN b ELSE str[i]]

\* urlparse("docker://" + image).netloc
Netloc(image) ==
    LET url == <<"docker", ":", "/", "/">> \o image
        rest == SubSeq(url, 5, Len(url))
    IN IF Positions(rest, "/") = {}
       THEN rest
       ELSE SubSeq(rest, 1, Min(Positions(rest, "/")) - 1)

parse_image_name(image) ==
    LET parts == Split(image, "@")
        digest == IF Len(parts) > 1 THEN parts[2] ELSE <<>>
        np == RSplit1(parts[1], ":")
        tag == IF Len(np) > 1 THEN np[2] ELSE <<>>
    IN [name |-> np[1], tag |-> tag, digest |-> digest]

\* the reference generate_konflux_source_image builds from the manifest digest
konflux_source_image(image, digest) ==
    RSplit1(image, ":")[1] \o <<":">> \o Replace(digest, ":", "-") \o <<".src">>

\* the reference whose manifest digest generate_konflux_source_image fetches
konflux_inspected_image(image) == image

\* the reference resolve_source_image_by_version_release inspects the config of
config_inspected_image(image) ==
    LET p == parse_image_name(image) IN p.name \o <<"@">> \o p.digest

version_release_source_image(image, version, release) ==
    parse_image_name(image).name \o <<":">> \o version \o <<"-">> \o release
        \o <<"-", "source">>

(***************************************************************************)
(* A reference is written from its parts: name[:tag][@algo:hex], the name  *)
(* starting with the registry host and its optional port.                  *)
(***************************************************************************)
PullSpec(r) ==
    r.name \o (IF r.tag = <<>> THEN <<>> ELSE <<":">> \o r.tag)
           \o (IF r.digest = <<>> THEN <<>> ELSE <<"@">> \o r.digest)

RefNames ==
    { <<"reg.io", "/", "ubi9", "/", "ubi">>,
      <<"reg.io", ":", "3000", "/", "ns", "/", "app">>,
      <<"other.io", "/", "img">> }

RefTags == { <<>>, <<"9.3">>, <<"latest">> }

RegistryDigests == { <<"sha256", ":", "123">>, <<"sha256", ":", "87e">> }

RefDigests == { <<>> } \cup RegistryDigests

Refs == [name : RefNames, tag : RefTags, digest : RefDigests]

\* the registry of a reference: the host and the optional port
RegistryOf(r) == SubSeq(r.name, 1, Min(Positions(r.name, "/")) - 1)

(***************************************************************************)
(* The registry as skopeo sees it.  A reference skopeo cannot parse makes  *)
(* every command on it exit non-zero.                                      *)
(***************************************************************************)
\* name[:tag] with at most a port colon before the first "/" and a tag colon after the last
WellFormedName(nt) ==
    /\ nt # <<>>
    /\ nt[1] \notin {":", "/"}
    /\ nt[Len(nt)] \notin {":", "/"}
    /\ IF Positions(nt, "/") = {}
       THEN Cardinality(Positions(nt, ":")) <= 1
       ELSE /\ Cardinality({i \in Positions(nt, ":") : i < Min(Positions(nt, "/"))}) <= 1
            /\ Cardinality({i \in Positions(nt, ":") : i > Max(Positions(nt, "/"))}) <= 1
            /\ \A i \in Positions(nt, ":") :
                  i < Min(Positions(nt, "/")) \/ i > Max(Positions(nt, "/"))

\* algo:hex
WellFormedDigest(dg) ==
    /\ Len(dg) = 3
    /\ dg[2] = ":"
    /\ dg[1] \notin {":", "-", "/", "@"}
    /\ dg[3] \notin {":", "-", "/", "@"}

WellFormed(image) ==
    /\ Len(Split(image, "@")) <= 2
    /\ WellFormedName(Split(image, "@")[1])
    /\ Len(Split(image, "@")) = 2 => WellFormedDigest(Split(image, "@")[2])

\* the manifest digests skopeo inspect --format {{.Digest}} can print for a reference
ReportedDigests(image) ==
    IF ~WellFormed(image) THEN {}
    ELSE IF Len(Split(image, "@")) = 2 THEN {Split(image, "@")[2]}
         ELSE RegistryDigests

\* config.Labels of an image: version and release, <<>> when the label is missing
LabelSets ==
    { [version |-> <<>>, release |-> <<>>],
      [version |-> <<"9.3">>, release |-> <<>>],
      [version |-> <<"9.3">>, release |-> <<"1">>] }

(***************************************************************************)
(* build() and main().  args.base_images holds the lines of --base-images  *)
(* and args.output_binary_image the reference of the binary image, both as *)
(* written by the caller; the code sees the written string, PullSpec(r).   *)
(***************************************************************************)
MaxBaseImages == 2

BaseRefs ==
    { [name |-> <<"reg.io", "/", "ubi9", "/", "ubi">>, tag |-> <<"9.3">>,
       digest |-> <<"sha256", ":", "123">>],
      [name |-> <<"reg.io", "/", "ubi9", "/", "ubi">>, tag |-> <<"9.3">>, digest |-> <<>>],
      [name |-> <<"reg.io", ":", "3000", "/", "ns", "/", "app">>, tag |-> <<"latest">>,
       digest |-> <<"sha256", ":", "87e">>],
      [name |-> <<"other.io", "/", "img">>, tag |-> <<>>,
       digest |-> <<"sha256", ":", "123">>] }

OutputRefs ==
    { [name |-> <<"out.io", "/", "ns", "/", "app">>, tag |-> <<"v1">>, digest |-> <<>>],
      [name |-> <<"out.io", ":", "5000", "/", "ns", "/", "app">>, tag |-> <<>>,
       digest |-> <<>>] }

Allowlists ==
    { { <<"reg.io">> },
      { <<"reg.io", ":", "3000">>, <<"other.io">> } }

\* what BuildSourceImage writes for the gathered sources
BsiOutputs ==
    { << LayerTar("b1", "./rpm_dir/a.src.rpm", "", 1) >>,
      << LayerTar("b1", "./rpm_dir/a.src.rpm", "", 1),
         LayerTar("b3", "./rpm_dir/c.src.rpm", "", 0) >> }

\* the layers of the source image of a base image
ParentSources ==
    { << LayerTar("b1", "./rpm_dir/a.src.rpm", "", 0) >>,
      << LayerTar("b2", "./extra_src_dir/extra-src-0.tar", "./pip/flask.tar.gz", 0),
         LayerTar("b3", "./rpm_dir/c.src.rpm", "", 0) >> }

NoLayout == [mediaType |-> MediaType("manifest"), digest |-> Sha256("none"), size |-> 0,
             annotations |-> "-"]

InitBuild ==
    /\ lfiles = <<>>
    /\ lindex = NoLayout
    /\ pfiles = <<>>
    /\ pindex = NoLayout
    /\ session = <<>>
    /\ failed = FALSE
    /\ last = NoOp
    /\ layerOf = <<>>
    /\ nops = 0
    /\ pc = "start"
    /\ \E bs \in SeqsUpTo(BaseRefs, 0, MaxBaseImages), al \in Allowlists,
          c \in BOOLEAN, rf \in BOOLEAN, out \in OutputRefs :
          args = [base_images |-> bs, registry_allowlist |-> al,
                  cachi2_artifacts_dir |-> c, result_file |-> rf,
                  output_binary_image |-> out]
    /\ bld = NoLocals
    /\ build_result = NewBuildResult
    /\ ops = <<>>
    /\ pushed = <<>>
    /\ digest_file = <<>>
    /\ result_file = <<>>
    /\ rc = -1

\* an exception leaves build()
Raise(msg) ==
    /\ pc' = "raised"
    /\ bld' = [bld EXCEPT !.raised = <<msg>>]

Inspect(kind, image) == ops' = Append(ops, [kind |-> kind, image |-> image])

\* make_source_archive(work_dir, args.source_dir, sib_dirs)
MakeSourceArchive ==
    /\ pc = "start"
    /\ \/ pc' = "base" /\ UNCHANGED bld
       \/ Raise("git")
    /\ UNCHANGED <<layoutVars, args, build_result, ops, pushed, digest_file, result_file, rc>>

\* base_images[-1]
first_base_image(base_images) == PullSpec(base_images[1])

last_base_image(base_images) == PullSpec(base_images[Len(base_images)])

\* urlparse("docker://" + base_image).netloc in args.registry_allowlist
allowed(base_image, registry_allowlist) == Netloc(base_image) \in registry_allowlist

\* if args.base_images: ... allowed = ...
CheckBaseImage ==
    /\ pc = "base"
    /\ IF args.base_images = <<>>
       THEN pc' = "prefetch" /\ UNCHANGED bld
       ELSE /\ bld' = [bld EXCEPT !.base_image = last_base_image(args.base_images)]
            /\ pc' = IF allowed(last_base_image(args.base_images), args.registry_allowlist)
                     THEN "vr_config" ELSE "prefetch"
    /\ UNCHANGED <<layoutVars, args, build_result, ops, pushed, digest_file, result_file, rc>>

\* resolve_source_image_by_version_release up to the labels check
FetchImageConfig ==
    /\ pc = "vr_config"
    /\ Inspect("config", config_inspected_image(bld.base_image))
    /\ \/ Raise("skopeo inspect --config")
       \/ /\ WellFormed(config_inspected_image(bld.base_image))
          /\ \E labels \in LabelSets :
                IF labels.version # <<>> /\ labels.release # <<>>
                THEN /\ pc' = "vr_probe"
                     /\ bld' = [bld EXCEPT !.candidate =
                                   version_release_source_image(bld.base_image,
                                        labels.version, labels.release)]
                ELSE pc' = "mf_digest" /\ UNCHANGED bld
    /\ UNCHANGED <<layoutVars, args, build_result, pushed, digest_file, result_file, rc>>

\* registry_has_image(source_image) of resolve_source_image_by_version_release
ProbeVersionRelease ==
    /\ pc = "vr_probe"
    /\ Inspect("exists", bld.candidate)
    /\ \/ /\ WellFormed(bld.candidate)
          /\ pc' = "download"
          /\ bld' = [bld EXCEPT !.source_image = bld.candidate]
       \/ pc' = "mf_digest" /\ UNCHANGED bld
    /\ UNCHANGED <<layoutVars, args, build_result, pushed, digest_file, result_file, rc>>

\* generate_konflux_source_image(image) of resolve_source_image_by_manifest
FetchManifestDigest ==
    /\ pc = "mf_digest"
    /\ Inspect("digest", konflux_inspected_image(bld.base_image))
    /\ \/ Raise("skopeo inspect")
       \/ \E digest \in ReportedDigests(konflux_inspected_image(bld.base_image)) :
             /\ pc' = "mf_probe"
             /\ bld' = [bld EXCEPT !.candidate =
                                       konflux_source_image(bld.base_image, digest),
                                   !.base_digest = digest]
    /\ UNCHANGED <<layoutVars, args, build_result, pushed, digest_file, result_file, rc>>

\* registry_has_image(source_image) of resolve_source_image_by_manifest
ProbeKonflux ==
    /\ pc = "mf_probe"
    /\ Inspect("exists", bld.candidate)
    /\ \/ /\ WellFormed(bld.candidate)
          /\ pc' = "download"
          /\ bld' = [bld EXCEPT !.source_image = bld.candidate]
       \/ pc' = "prefetch" /\ UNCHANGED bld
    /\ UNCHANGED <<layoutVars, args, build_result, pushed, digest_file, result_file, rc>>

\* download_parent_image_sources(source_image, work_dir)
DownloadParentSources ==
    /\ pc = "download"
    /\ Inspect("copy", bld.source_image)
    /\ \/ Raise("skopeo copy") /\ UNCHANGED <<pfiles, pindex>>
       \/ \E pl \in ParentSources :
             /\ pfiles' = LayoutFiles("parent", pl, "compact")
             /\ pindex' = DescriptorOf(ManifestOf("parent", pl, "compact"))
             /\ bld' = [bld EXCEPT !.parent_sources_dir = TRUE]
             /\ pc' = "prefetch"
    /\ UNCHANGED <<lfiles, lindex, session, failed, last, layerOf, nops, args, build_result,
                   pushed, digest_file, result_file, rc>>

\* if args.cachi2_artifacts_dir: included = gather_prefetched_sources(...)
GatherPrefetchedSources ==
    /\ pc = "prefetch"
    /\ IF args.cachi2_artifacts_dir
       THEN \/ \E included \in BOOLEAN :
                  /\ build_result' = [build_result EXCEPT !.dependencies_included = included]
                  /\ pc' = "dest"
                  /\ UNCHANGED bld
            \/ Raise("prefetched sources") /\ UNCHANGED build_result
       ELSE pc' = "dest" /\ UNCHANGED <<bld, build_result>>
    /\ UNCHANGED <<layoutVars, args, ops, pushed, digest_file, result_file, rc>>

\* generate_source_images(image) once the manifest digest of image is known
generate_source_images(image, digest) ==
    << image \o <<".src">>, konflux_source_image(image, digest) >>

\* dest_images = generate_source_images(...); build_result["image_url"] = dest_images[-1]
GenerateSourceImages ==
    /\ pc = "dest"
    /\ Inspect("digest", konflux_inspected_image(PullSpec(args.output_binary_image)))
    /\ \/ Raise("skopeo inspect") /\ UNCHANGED build_result
       \/ \E digest \in ReportedDigests(PullSpec(args.output_binary_image)) :
             \E dest_images \in
                   {generate_source_images(PullSpec(args.output_binary_image), digest)} :
                /\ bld' = [bld EXCEPT !.binary_digest = digest, !.dest_images = dest_images]
                /\ build_result' =
                      [build_result EXCEPT !.image_url = dest_images[Len(dest_images)]]
                /\ pc' = "bsi"
    /\ UNCHANGED <<layoutVars, args, pushed, digest_file, result_file, rc>>

\* build_source_image_in_local(args.bsi, work_dir, sib_dirs)
BuildSourceImageInLocal ==
    /\ pc = "bsi"
    /\ \/ Raise("bsi") /\ UNCHANGED <<lfiles, lindex>>
       \/ \E ll \in BsiOutputs :
             /\ lfiles' = LayoutFiles("local", ll, "compact")
             /\ lindex' = DescriptorOf(ManifestOf("local", ll, "compact"))
             /\ pc' = IF ~bld.parent_sources_dir THEN "push"
                      ELSE IF build_result.dependencies_included THEN "dedup" ELSE "merge"
             /\ UNCHANGED bld
    /\ UNCHANGED <<pfiles, pindex, session, failed, last, layerOf, nops, args, build_result,
                   ops, pushed, digest_file, result_file, rc>>

\* deduplicate_sources(parent_sources_dir, image_output_dir)
DeduplicateSources ==
    /\ pc = "dedup"
    /\ \E r \in {deduplicate_sources(pfiles, pindex, lfiles, lindex)} :
          /\ lfiles' = r.files
          /\ lindex' = r.index
          /\ IF r.ok THEN pc' = "merge" /\ UNCHANGED bld ELSE Raise("remove_layer")
    /\ UNCHANGED <<pfiles, pindex, session, failed, last, layerOf, nops, args, build_result,
                   ops, pushed, digest_file, result_file, rc>>

\* merge_image without the assignment of base_image_source_included
merge_image_unrecorded ==
    /\ pc = "merge"
    /\ \E r \in {merge_image(pfiles, pindex, lfiles, lindex)} :
          /\ lfiles' = r.files
          /\ lindex' = r.index
          /\ IF r.ok
             THEN pc' = "push" /\ UNCHANGED <<bld, build_result>>
             ELSE Raise("merge_image") /\ UNCHANGED build_result
    /\ UNCHANGED <<pfiles, pindex, session, failed, last, layerOf, nops, args, ops, pushed,
                   digest_file, result_file, rc>>

\* merge_image(...); build_result["base_image_source_included"] = True
MergeImage ==
    /\ pc = "merge"
    /\ \E r \in {merge_image(pfiles, pindex, lfiles, lindex)} :
          /\ lfiles' = r.files
          /\ lindex' = r.index
          /\ IF r.ok
             THEN /\ pc' = "push"
                  /\ build_result' =
                        [build_result EXCEPT !.base_image_source_included = TRUE]
                  /\ UNCHANGED bld
             ELSE Raise("merge_image") /\ UNCHANGED build_result
    /\ UNCHANGED <<pfiles, pindex, session, failed, last, layerOf, nops, args, ops, pushed,
                   digest_file, result_file, rc>>

\* one turn of the loop of push_to_registry: skopeo_copy(src, dest, digest_file)
PushToRegistry ==
    /\ pc = "push"
    /\ bld.copied < Len(bld.dest_images)
    /\ \/ Raise("skopeo copy") /\ UNCHANGED <<pushed, digest_file>>
       \/ /\ WellFormed(bld.dest_images[bld.copied + 1])
          /\ \E digest \in RegistryDigests :
                /\ pushed' = Append(pushed, [dest |-> bld.dest_images[bld.copied + 1],
                                             layout |-> lindex, digest |-> digest])
                /\ digest_file' = digest
          /\ bld' = [bld EXCEPT !.copied = @ + 1]
          /\ UNCHANGED pc
    /\ UNCHANGED <<layoutVars, args, build_result, ops, result_file, rc>>

\* return f.read().strip(); build_result["image_digest"] = image_digest; return
ReturnBuildResult ==
    /\ pc = "push"
    /\ bld.copied = Len(bld.dest_images)
    /\ build_result' = [build_result EXCEPT !.image_digest = digest_file]
    /\ pc' = "built"
    /\ UNCHANGED <<layoutVars, args, bld, ops, pushed, digest_file, result_file, rc>>

\* main() without the except clause
build_result_of_build(raised, result) == result

\* what main() reports: the result of build() or the failure record
main_build_result(raised, result) ==
    IF raised # <<>> THEN [status |-> "failure", message |-> raised[1]] ELSE result

\* return 0 if build_result["status"] == "success", 1 otherwise
exit_code(result) == IF result.status = "success" THEN 0 ELSE 1

\* main() after build() returned or raised
Main ==
    /\ pc \in {"built", "raised"}
    /\ build_result' = main_build_result(bld.raised, build_result)
    /\ result_file' = IF args.result_file THEN <<build_result'>> ELSE <<>>
    /\ rc' = exit_code(build_result')
    /\ pc' = "exit"
    /\ UNCHANGED <<layoutVars, args, bld, ops, pushed, digest_file>>

NextBuild ==
    \/ MakeSourceArchive
    \/ CheckBaseImage
    \/ FetchImageConfig
    \/ ProbeVersionRelease
    \/ FetchManifestDigest
    \/ ProbeKonflux
    \/ DownloadParentSources
    \/ GatherPrefetchedSources
    \/ GenerateSourceImages
    \/ BuildSourceImageInLocal
    \/ DeduplicateSources
    \/ MergeImage
    \/ PushToRegistry
    \/ ReturnBuildResult
    \/ Main

SpecBuild == InitBuild /\ [][NextBuild]_vars

(***************************************************************************)
(* resolve_source_image_by_manifest called on a reference of its own       *)
(***************************************************************************)
InitRef ==
    /\ lfiles = <<>>
    /\ lindex = NoLayout
    /\ pfiles = <<>>
    /\ pindex = NoLayout
    /\ session = <<>>
    /\ failed = FALSE
    /\ last = NoOp
    /\ layerOf = <<>>
    /\ nops = 0
    /\ pc = "mf_digest"
    /\ \E r \in Refs :
          /\ args = [NoArgs EXCEPT !.base_images = <<r>>]
          /\ bld = [NoLocals EXCEPT !.base_image = PullSpec(r)]
    /\ build_result = NewBuildResult
    /\ ops = <<>>
    /\ pushed = <<>>
    /\ digest_file = <<>>
    /\ result_file = <<>>
    /\ rc = -1

NextRef == FetchManifestDigest \/ ProbeKonflux

SpecRef == InitRef /\ [][NextRef]_vars

(***************************************************************************)
(* The references the claims name, written from the parts of a reference.  *)
(***************************************************************************)
LastBase == args.base_images[Len(args.base_images)]

SameRepository(image, name) ==
    Len(image) >= Len(name) /\ SubSeq(image, 1, Len(name)) = name

\* <name>:<version>-<release>-source
VersionReleaseForm(r, labels) ==
    r.name \o <<":">> \o labels.version \o <<"-">> \o labels.release \o <<"-", "source">>

\* <name>:<algo>-<hex>.src
KonfluxForm(r, digest) == r.name \o <<":", digest[1], "-", digest[3], ".src">>

C6_FailurePushesNothing ==
    (pc = "exit" /\ build_result.status = "failure") => pushed = <<>>

C8_SourceImageLookup ==
    args.base_images # <<>> =>
        \A i \in 1..Len(ops) :
            /\ ops[i].kind = "exists" =>
                  ops[i].image \in
                      {VersionReleaseForm(LastBase, l) : l \in LabelSets}
                          \cup {KonfluxForm(LastBase, d) : d \in RegistryDigests}
            /\ ops[i].kind = "copy" =>
                  /\ i > 1
                  /\ ops[i - 1].kind = "exists"
                  /\ ops[i - 1].image = ops[i].image
                  /\ \A j \in (i + 1)..Len(ops) : ops[j].kind # "exists"

(***************************************************************************)
(* C9: a successful build has pushed the local layout twice, to            *)
(* <binary>.src and then to <repository>:<algo>-<hex>.src, algo:hex being  *)
(* the manifest digest of the binary image; image_url is the second        *)
(* reference and image_digest the digest the push wrote.                   *)
(***************************************************************************)
C9_PushesBothReferences ==
    (pc = "exit" /\ build_result.status = "success") =>
        /\ Len(pushed) = 2
        /\ pushed[1].dest = PullSpec(args.output_binary_image) \o <<".src">>
        /\ pushed[2].dest = KonfluxForm(args.output_binary_image, bld.binary_digest)
        /\ pushed[1].layout = pushed[2].layout
        /\ build_result.image_url = pushed[2].dest
        /\ build_result.image_digest = pushed[2].digest

(***************************************************************************)
(* C10: resolve_source_image_by_manifest inspects the manifest digest at   *)
(* name@digest when the reference carries a digest, and probes and returns *)
(* name:<algo>-<hex>.src for the digest the registry reported.             *)
(***************************************************************************)
C10_KonfluxReference ==
    args.base_images # <<>> =>
        /\ \A i \in 1..Len(ops) :
              /\ ops[i].kind = "digest" =>
                    ops[i].image = PullSpec(IF LastBase.digest # <<>>
                                            THEN [LastBase EXCEPT !.tag = <<>>]
                                            ELSE LastBase)
              /\ ops[i].kind = "exists" =>
                    ops[i].image = KonfluxForm(LastBase, bld.base_digest)
        /\ bld.source_image # <<>> =>
              bld.source_image = KonfluxForm(LastBase, bld.base_digest)

(***************************************************************************)
(* C11: after a save that replaced a descriptor the blob file of the old   *)
(* descriptor is gone: for every layer descriptor that left the manifest,  *)
(* for a replaced config descriptor and for a replaced manifest            *)
(* descriptor.  The layout before the save held compact JSON, so that a    *)
(* descriptor is replaced only when the object was changed.                *)
(***************************************************************************)
C11_OldBlobDeleted ==
    (/\ last.op = "save"
     /\ ~failed
     /\ last.index.digest.hex.fmt = "compact"
     /\ last.config.digest.hex.fmt = "compact") =>
        /\ \A d \in Range(last.layers) \ Range(LocalManifest.layers) :
              ~PathExists(lfiles, d.digest)
        /\ LocalManifest.config # last.config => ~PathExists(lfiles, last.config.digest)
        /\ lindex # last.index => ~PathExists(lfiles, last.index.digest)

(***************************************************************************)
(* C12: an Index.save that directly follows an Index.save changes no       *)
(* descriptor, writes no blob and does not rewrite index.json; and a save  *)
(* that rewrote index.json changed the manifest descriptor.                *)
(***************************************************************************)
C12_SaveIsIdempotent ==
    last.op = "save" =>
        /\ last.prevop = "save" =>
              /\ lindex = last.index
              /\ LocalManifest.config = last.config
              /\ LocalManifest.layers = last.layers
              /\ DOMAIN lfiles = last.files
              /\ ~last.written
        /\ last.written => lindex # last.index

\* a second save after a save that changed a layer and rewrote index.json
C12_Witness ==
    /\ last.op = "save"
    /\ last.prevop = "save"
    /\ last.prevwritten
    /\ ~failed
    /\ nops = 4

(***************************************************************************)
(* Blob.save called on a blob of the layout: a layer descriptor of the     *)
(* local manifest, with or without annotations, whose content was not      *)
(* read, was read, or was set.                                             *)
(***************************************************************************)
BlobAnnotations == {"-", "build"}

InitBlob == InitLayout

SaveBlob ==
    /\ nops < MaxOps
    /\ nops' = nops + 1
    /\ \E l \in Range(LocalManifest.layers), an \in BlobAnnotations :
          \E raw \in {<<>>, <<lfiles[l.digest]>>} \cup {<<c>> : c \in LayerUniverse} :
             \E r \in {BlobSave(lfiles, [l EXCEPT !.annotations = an], raw)} :
                /\ lfiles' = r.files
                /\ last' = [op |-> "blobsave", d |-> [l EXCEPT !.annotations = an],
                            raw |-> raw, files |-> DOMAIN lfiles, result |-> r]
    /\ UNCHANGED <<lindex, pfiles, pindex, session, failed, layerOf, buildVars>>

NextBlob == SaveBlob

SpecBlob == InitBlob /\ [][NextBlob]_vars

(***************************************************************************)
(* C13: Blob.save returns self and writes nothing when the content was     *)
(* never read or set or hashes to the descriptor's digest; otherwise the   *)
(* content is written under its sha256, the descriptor returned keeps      *)
(* mediaType and annotations, has the new digest and the content length as *)
(* size, and the old blob file is still there.                             *)
(***************************************************************************)
C13_BlobSave ==
    last.op = "blobsave" =>
        IF last.raw = <<>> \/ Sha256(last.raw[1]) = last.d.digest
        THEN /\ last.result.self
             /\ last.result.descriptor = last.d
             /\ DOMAIN lfiles = last.files
        ELSE /\ ~last.result.self
             /\ PathExists(lfiles, Sha256(last.raw[1]))
             /\ lfiles[Sha256(last.raw[1])] = last.raw[1]
             /\ last.result.descriptor =
                   [mediaType |-> last.d.mediaType, digest |-> Sha256(last.raw[1]),
                    size |-> ContentSize(last.raw[1]), annotations |-> last.d.annotations]
             /\ last.d.digest \in last.files => PathExists(lfiles, last.d.digest)

\* an annotated blob was given content of another length and saved
C13_Witness ==
    /\ last.op = "blobsave"
    /\ ~last.result.self
    /\ last.d.annotations = "build"
    /\ last.result.descriptor.size # last.d.size
    /\ last.d.digest \in last.files
    /\ Cardinality(DOMAIN lfiles) = Cardinality(last.files) + 1

(***************************************************************************)
(* C14: remove_layer called with a layer whose descriptor equals no entry  *)
(* of layers[] raises and leaves layers[], diff_ids[], history[] and the   *)
(* blob files as they were.                                                *)
(***************************************************************************)
C14_RemoveUnknownLayer ==
    (/\ last.op = "remove"
     /\ \A i \in 1..Len(last.before.py.layers) : last.before.py.layers[i] # last.layer) =>
        /\ failed
        /\ session[1].py.layers = last.before.py.layers
        /\ session[1].cfgpy.diff_ids = last.before.cfgpy.diff_ids
        /\ session[1].cfgpy.history = last.before.cfgpy.history
        /\ DOMAIN lfiles = last.blobs

\* the layer is one that layer.save() returned: its blob exists, the manifest lacks it
C14_Witness ==
    /\ last.op = "remove"
    /\ failed
    /\ \A i \in 1..Len(last.before.py.layers) : last.before.py.layers[i] # last.layer
    /\ PathExists(lfiles, last.layer.digest)
    /\ Len(session[1].py.layers) = 2

(***************************************************************************)
(* BSILayer.__eq__ and __hash__ applied to two layers.  hash(t) of a tuple *)
(* is a function of the tuple.                                             *)
(***************************************************************************)
bsi_hash(c) == [hash |-> hash_key(c)]

bsi_eq(x, y) == hash_key(x) = hash_key(y)

RpmLinks == {"./rpm_dir/a.src.rpm", "./rpm_dir/c.src.rpm"}

ExtraSrcLinks == {"./extra_src_dir/extra-src-0.tar", "./extra_src_dir/extra-src-1.tar"}

BsiLayers ==
    {LayerTar(b, l, "", pad) : b \in {"b1", "b2"}, l \in RpmLinks, pad \in {0, 1}}
    \cup {LayerTar(b, l, e, pad) : b \in {"b1", "b2"}, l \in ExtraSrcLinks,
                                   e \in {"./pip/flask.tar.gz", "./rpm_dir/a.src.rpm"},
                                   pad \in {0, 1}}

InitBsi ==
    /\ lfiles = <<>>
    /\ lindex = NoLayout
    /\ pfiles = <<>>
    /\ pindex = NoLayout
    /\ session = <<>>
    /\ failed = FALSE
    /\ \E x \in BsiLayers, y \in BsiLayers : last = [op |-> "none", x |-> x, y |-> y]
    /\ layerOf = <<>>
    /\ nops = 0
    /\ BuildIdle

\* BSILayer(x) == BSILayer(y), BSILayer(y) == BSILayer(x) and the two hashes
CompareBsiLayers ==
    /\ last.op = "none"
    /\ last' = [op |-> "bsi_eq", x |-> last.x, y |-> last.y,
                eq |-> bsi_eq(last.x, last.y), eq_rev |-> bsi_eq(last.y, last.x),
                hash_x |-> bsi_hash(last.x), hash_y |-> bsi_hash(last.y)]
    /\ UNCHANGED <<lfiles, lindex, pfiles, pindex, session, failed, layerOf, nops, buildVars>>

NextBsi == CompareBsiLayers

SpecBsi == InitBsi /\ [][NextBsi]_vars

\* the artefact a layer carries: the .src.rpm link, or the first member of the extra tar
ArtefactName(c) == IF c.obj.link \in RpmLinks THEN c.obj.link ELSE c.obj.extra

(***************************************************************************)
(* C15: two BSI layers are equal exactly when blob member path and         *)
(* artefact name agree; equality is reflexive and symmetric, equal layers  *)
(* have equal hashes, and neither the layer digest nor the extra-src link  *)
(* name takes part.                                                        *)
(***************************************************************************)
C15_BsiLayerEquality ==
    last.op = "bsi_eq" =>
        /\ last.eq <=> (/\ last.x.obj.blob = last.y.obj.blob
                        /\ ArtefactName(last.x) = ArtefactName(last.y))
        /\ last.eq = last.eq_rev
        /\ last.x = last.y => last.eq
        /\ last.eq => last.hash_x = last.hash_y

\* equal layers that differ in digest and in the extra-src link name
C15_Witness ==
    /\ last.op = "bsi_eq"
    /\ last.eq
    /\ Sha256(last.x) # Sha256(last.y)
    /\ last.x.obj.link # last.y.obj.link
    /\ last.x.obj.pad # last.y.obj.pad

(***************************************************************************)
(* parse_image_name called on a reference of its own                       *)
(***************************************************************************)
ParseNames ==
    RefNames \cup { <<"ubuntu">>, <<"reg">>, <<"reg", "/", "org", "/", "path", "/", "img">>,
                    <<"reg", ":", "3000", "/", "img">> }

ParseRefs == [name : ParseNames, tag : RefTags, digest : RefDigests]

InitParse ==
    /\ lfiles = <<>>
    /\ lindex = NoLayout
    /\ pfiles = <<>>
    /\ pindex = NoLayout
    /\ session = <<>>
    /\ failed = FALSE
    /\ \E r \in ParseRefs : last = [op |-> "none", ref |-> r]
    /\ layerOf = <<>>
    /\ nops = 0
    /\ BuildIdle

ParseImageName ==
    /\ last.op = "none"
    /\ last' = [op |-> "parse", ref |-> last.ref, image |-> PullSpec(last.ref),
                result |-> parse_image_name(PullSpec(last.ref))]
    /\ UNCHANGED <<lfiles, lindex, pfiles, pindex, session, failed, layerOf, nops, buildVars>>

NextParse == ParseImageName

SpecParse == InitParse /\ [][NextParse]_vars

(***************************************************************************)
(* C16: parse_image_name returns the name, the tag and the digest the      *)
(* reference was written from: the digest is the text after "@", the tag   *)
(* the text after the rightmost ":" of the rest, and the ":" of a          *)
(* host:port prefix of a reference without tag is no tag separator.        *)
(***************************************************************************)
C16_ParseImageName ==
    last.op = "parse" =>
        /\ last.result.digest = last.ref.digest
        /\ last.result.tag = last.ref.tag
        /\ last.result.name = last.ref.name

(***************************************************************************)
(* gather_prefetched_sources.  The prefetch tree is the directory          *)
(* <cachi2_dir>/output with sub-directories 1..NDirs, numbered in sorted   *)
(* order, and files in them: a function from paths to file contents.  A    *)
(* file name is a sequence of tokens; a name ending in .src.rpm holds an   *)
(* RPM (mime type application/x-rpm), a name ending in .tar.gz a gzip      *)
(* archive.  The hex digest of a content is written as the content, as in  *)
(* Sha256.                                                                 *)
(***************************************************************************)
MaxFiles == 3

NDirs == 3

\* file names, in the order sorted() gives them: hex digits sort before letters
SortedNames ==
    << <<"y", "-", "a.src.rpm">>, <<"a.src.rpm">>, <<"b.src.rpm">>,
       <<"flask.tar.gz">>, <<"requests.tar.gz">> >>

SrpmNames == { <<"y", "-", "a.src.rpm">>, <<"a.src.rpm">>, <<"b.src.rpm">> }

ArchiveNames == { <<"flask.tar.gz">>, <<"requests.tar.gz">> }

RpmContents == {"x", "y"}

PrefetchPaths == [dir : 1..NDirs, name : Range(SortedNames)]

\* every path of the output directory, in the order of a walk with sorted entries
SortedPaths ==
    [k \in 1..(NDirs * Len(SortedNames)) |->
        [dir |-> ((k - 1) \div Len(SortedNames)) + 1,
         name |-> SortedNames[((k - 1) % Len(SortedNames)) + 1]]]

PrefetchTrees ==
    UNION { {t \in [S -> RpmContents] : \A q \in S : q.name \in ArchiveNames => t[q] = "x"} :
            S \in {T \in SUBSET PrefetchPaths : Cardinality(T) <= MaxFiles} }

GatherInputs ==
    [output : {TRUE}, tree : PrefetchTrees, env : BOOLEAN]
    \cup [output : {FALSE}, tree : {<<>>}, env : BOOLEAN]

unique_srpm_artifact_name(filename, content) == <<Sha256(content).hex, "-">> \o filename

\* _find_prefetch_srpm_archives: dirs.sort(), sorted(files), *.src.rpm of mime x-rpm
find_prefetch_srpm_archives(tree) ==
    SelectSeq(SortedPaths, LAMBDA q : q \in DOMAIN tree /\ q.name \in SrpmNames)

ArchivePaths(tree) == {q \in DOMAIN tree : q.name \in ArchiveNames}

\* _find_prefetch_source_archives: os.walk yields the directories, and the files of
\* each, in the order the file system lists them
find_prefetch_source_archives(tree) ==
    {w \in [1..Cardinality(ArchivePaths(tree)) -> ArchivePaths(tree)] :
        /\ \A i, j \in DOMAIN w : i # j => w[i] # w[j]
        /\ \A i, j, k \in DOMAIN w :
              (i < j /\ j < k /\ w[i].dir = w[k].dir) => w[j].dir = w[i].dir}

\* shutil.copy(src, dest) into rpm_dir, with the file it replaced
CopySrpm(acc, src, dest, content) ==
    [rpm_dir |-> (dest :> content) @@ acc.rpm_dir,
     copies |-> Append(acc.copies,
                       [src |-> src, dest |-> dest, content |-> content,
                        replaced |-> IF dest \in DOMAIN acc.rpm_dir
                                     THEN <<acc.rpm_dir[dest]>> ELSE <<>>])]

\* the body of the loop over _find_prefetch_srpm_archives()
GatherSrpm(acc, src, content) ==
    IF src.name \in DOMAIN acc.rpm_dir
    THEN IF unique_srpm_artifact_name(src.name, content)
                # unique_srpm_artifact_name(src.name, acc.rpm_dir[src.name])
         THEN CopySrpm(acc, src, unique_srpm_artifact_name(src.name, content), content)
         ELSE acc
    ELSE CopySrpm(acc, src, src.name, content)

RECURSIVE GatherSrpms(_, _, _, _)
GatherSrpms(acc, tree, walk, i) ==
    IF i > Len(walk)
    THEN acc
    ELSE GatherSrpms(GatherSrpm(acc, walk[i], tree[walk[i]]), tree, walk, i + 1)

\* the loop over _find_prefetch_source_archives(): the i-th archive met goes to src-<i-1>
GatherArchives(listing) ==
    [i \in 1..Len(listing) |->
        [src_dir |-> i - 1, rel |-> listing[i].dir, filename |-> listing[i].name]]

ExtraSrcDirs(listing, env) ==
    [i \in 1..Len(listing) |-> <<"prefetched_sources", "src", i - 1>>]
        \o (IF env THEN << <<"cachi2_env">> >> ELSE <<>>)

gather_prefetched_sources(input, listing) ==
    IF ~input.output
    THEN [gathered |-> FALSE, sources |-> <<>>, extra_src_dirs |-> <<>>,
          rpm_dir |-> <<>>, copies |-> <<>>]
    ELSE [gathered |-> Len(listing) + Len(find_prefetch_srpm_archives(input.tree)) > 0,
          sources |-> GatherArchives(listing),
          extra_src_dirs |-> ExtraSrcDirs(listing, input.env)]
         @@ GatherSrpms([rpm_dir |-> <<>>, copies |-> <<>>], input.tree,
                        find_prefetch_srpm_archives(input.tree), 1)

InitGather ==
    /\ lfiles = <<>>
    /\ lindex = NoLayout
    /\ pfiles = <<>>
    /\ pindex = NoLayout
    /\ session = <<>>
    /\ failed = FALSE
    /\ \E input \in GatherInputs : last = [op |-> "none", input |-> input]
    /\ layerOf = <<>>
    /\ nops = 0
    /\ BuildIdle

GatherSources ==
    /\ last.op = "none"
    /\ \E listing \in find_prefetch_source_archives(last.input.tree) :
          last' = [op |-> "gather", input |-> last.input, listing |-> listing,
                   result |-> gather_prefetched_sources(last.input, listing)]
    /\ UNCHANGED <<lfiles, lindex, pfiles, pindex, session, failed, layerOf, nops, buildVars>>

NextGather == GatherSources

SpecGather == InitGather /\ [][NextGather]_vars

\* the (filename, content) pairs of the .src.rpm files of a tree
SrpmPairs(tree) == {<<q.name, tree[q]>> : q \in {r \in DOMAIN tree : r.name \in SrpmNames}}

\* the content of the first file the walk meets under a name
FirstContent(tree, name) ==
    tree[CHOOSE q \in DOMAIN tree :
            /\ q.name = name
            /\ \A r \in DOMAIN tree : r.name = name => q.dir <= r.dir]

(***************************************************************************)
(* C17: after gather_prefetched_sources rpm_dir holds exactly one file for *)
(* every distinct (filename, content) pair of the .src.rpm files found:    *)
(* the first file met under a name keeps the name, a later file of the     *)
(* same name and another content is stored as <sha256>-<filename>, and no  *)
(* stored file is overwritten by different content.                        *)
(***************************************************************************)
C17_OneFilePerSrpm ==
    (last.op = "gather" /\ last.input.output) =>
        /\ Cardinality(DOMAIN last.result.rpm_dir) = Cardinality(SrpmPairs(last.input.tree))
        /\ \A pr \in SrpmPairs(last.input.tree) :
              IF FirstContent(last.input.tree, pr[1]) = pr[2]
              THEN /\ pr[1] \in DOMAIN last.result.rpm_dir
                   /\ last.result.rpm_dir[pr[1]] = pr[2]
              ELSE /\ unique_srpm_artifact_name(pr[1], pr[2]) \in DOMAIN last.result.rpm_dir
                   /\ last.result.rpm_dir[unique_srpm_artifact_name(pr[1], pr[2])] = pr[2]
        /\ \A i \in DOMAIN last.result.copies :
              last.result.copies[i].replaced \in {<<>>, <<last.result.copies[i].content>>}

\* the archives of a tree in the order of a walk with sorted entries
SortedArchives(tree) == SelectSeq(SortedPaths, LAMBDA q : q \in ArchivePaths(tree))

(***************************************************************************)
(* C18: the src-<N> directory given to each prefetched source archive, and *)
(* the entries appended to extra_src_dirs, depend on the paths of the tree *)
(* alone: whatever order the file system lists the entries in, the         *)
(* numbering is the one of the walk over the sorted entries.               *)
(***************************************************************************)
C18_NumberingIsReproducible ==
    (last.op = "gather" /\ last.input.output) =>
        /\ last.result.sources = GatherArchives(SortedArchives(last.input.tree))
        /\ last.result.extra_src_dirs
              = ExtraSrcDirs(SortedArchives(last.input.tree), last.input.env)

(***************************************************************************)
(* merge_sboms.py: the merge of two lists of SBOM items.  An item is the   *)
(* raw CycloneDX component (bom-ref, name, version, purl); a purl is kept  *)
(* as it is written: type, name, version, the qualifier keys in the order  *)
(* written and the subpath ("" when absent, no namespace).  A written purl *)
(* without type does not parse.  A key is a sequence of string tokens.     *)
(***************************************************************************)
MaxItems == 3

WrittenPurl(type, name, version, quals, subpath) ==
    [type |-> type, name |-> name, version |-> version, quals |-> quals, subpath |-> subpath]

Component(id, name, version, purl) ==
    [id |-> id, name |-> name, version |-> version, purl |-> purl]

\* items as the scanner reports them
SyftItems ==
    { Component("s1", "Requests", "2.0", <<WrittenPurl("pypi", "Requests", "2.0", <<>>, "")>>),
      Component("s2", "example.com/mod", "(devel)",
                <<WrittenPurl("golang", "example.com/mod", "(devel)", <<>>, "")>>),
      Component("s3", "bash", "5.1", <<>>),
      Component("s4", "./local", "", <<WrittenPurl("", "local", "", <<>>, "")>>),
      Component("s5", "vendor-pkg", "1.0", <<WrittenPurl("npm", "vendor-pkg", "1.0", <<>>, "")>>),
      Component("s6", "app", "1.0", <<WrittenPurl("npm", "app", "1.0", <<>>, "vendor-pkg")>>),
      Component("s7", "requests", "1.0", <<WrittenPurl("pypi", "requests", "1.0", <<>>, "")>>) }

\* items as cachi2 reports them
Cachi2Items ==
    { Component("c1", "requests", "2.0",
                <<WrittenPurl("pypi", "requests", "2.0", <<"download_url", "vcs_url">>, "")>>),
      Component("c2", "requests", "2.0",
                <<WrittenPurl("pypi", "requests", "2.0", <<"vcs_url", "download_url">>, "")>>),
      Component("c3", "app", "1.0", <<WrittenPurl("npm", "app", "1.0", <<>>, "vendor-pkg")>>),
      Component("c4", "bash", "5.1", <<>>) }

SbomItems == SyftItems \cup Cachi2Items

ItemLists(n) == UNION {[1..k -> SbomItems] : k \in 0..n}

\* the qualifier keys in sorted order
SortedQualifiers == <<"download_url", "vcs_url">>

\* PackageURL.from_string: the qualifiers become a mapping
from_string(w) ==
    [type |-> w.type, name |-> w.name, version |-> w.version,
     qualifiers |-> Range(w.quals), subpath |-> w.subpath]

\* try_parse_purl, on the purl entry of an item: <<>> is None
try_parse_purl(ws) ==
    IF ws = <<>> \/ ws[1].type = "" THEN <<>> ELSE <<from_string(ws[1])>>

\* CDXComponent.purl()
purl(c) == try_parse_purl(c.purl)

\* PackageURL.to_string: the qualifiers are written sorted by key
to_string(q) ==
    <<"pkg:", q.type, "/", q.name>>
        \o (IF q.version = "" THEN <<>> ELSE <<"@", q.version>>)
        \o (IF q.qualifiers = {} THEN <<>>
            ELSE <<"?">> \o SelectSeq(SortedQualifiers, LAMBDA k : k \in q.qualifiers))
        \o (IF q.subpath = "" THEN <<>> ELSE <<"#", q.subpath>>)

\* name.startswith((".", "/")), on the names of the items
StartsWithDotOrSlash(name) == name \in {"./local"}

fallback_key(c) ==
    IF c.name # "" /\ ~StartsWithDotOrSlash(c.name)
    THEN <<c.name, "@", c.version>>
    ELSE <<c.id>>

\* key() of merge_by_apparent_sameness
apparent_key(c) == IF purl(c) # <<>> THEN to_string(purl(c)[1]) ELSE fallback_key(c)

\* a dedupe that keeps the last item of every key
dedupe_keep_last(items, keys) ==
    SelectSeq([i \in DOMAIN items |->
                  [item |-> items[i],
                   keep |-> \A j \in DOMAIN items : j > i => keys[j] # keys[i]]],
              LAMBDA e : e.keep)

\* the loop of _dedupe: item_by_key.setdefault(by_key(item), item); kept holds the
\* positions of the values of item_by_key in insertion order
RECURSIVE DedupeLoop(_, _, _)
DedupeLoop(keys, i, kept) ==
    IF i > Len(keys)
    THEN kept
    ELSE DedupeLoop(keys, i + 1,
                    IF \E k \in DOMAIN kept : keys[kept[k]] = keys[i]
                    THEN kept
                    ELSE Append(kept, i))

DedupeValues(items, kept) == [k \in DOMAIN kept |-> [item |-> items[kept[k]], keep |-> TRUE]]

\* _dedupe(items, by_key), the keys computed item by item
dedupe(items, keys) == DedupeValues(items, DedupeLoop(keys, 1, <<>>))

Unwrap(entries) == [k \in DOMAIN entries |-> entries[k].item]

ApparentKeys(items) == [i \in DOMAIN items |-> apparent_key(items[i])]

\* _merge(items_a, items_b, by_key) = _dedupe(itertools.chain(items_a, items_b), by_key)
merge_chain(items) == dedupe(items, ApparentKeys(items))

merge_by_apparent_sameness(components_a, components_b) ==
    Unwrap(merge_chain(components_a \o components_b))

\* subpath.startswith("v") and subpath.removeprefix("v").isdecimal(), on the subpaths
\* of the items
subpath_is_version(subpath) == subpath \in {"v2"}

\* name.startswith("."), on the names of the items
StartsWithDot(name) == name \in {"./local"}

\* str.lower(), on the names of the items
Lower(name) == IF name = "Requests" THEN "requests" ELSE name

\* urllib.parse.quote_plus, on the versions of the items
quote_plus(version) == IF version = "(devel)" THEN "%28devel%29" ELSE version

is_syft_local_golang(c, q) ==
    IF q = <<>> \/ q[1].type # "golang"
    THEN FALSE
    ELSE IF q[1].subpath # "" /\ ~subpath_is_version(q[1].subpath)
         THEN TRUE
         ELSE StartsWithDot(c.name) \/ c.version = "(devel)"

is_syft_local_golang_component(c) == is_syft_local_golang(c, purl(c))

is_cachi2_non_registry(q) ==
    IF q = <<>>
    THEN FALSE
    ELSE /\ q[1].type \in {"pypi", "npm"}
         /\ ("vcs_url" \in q[1].qualifiers \/ "download_url" \in q[1].qualifiers)

is_cachi2_non_registry_dependency(c) == is_cachi2_non_registry(purl(c))

unique_key_cachi2_of(c, q) ==
    IF q = <<>>
    THEN fallback_key(c)
    ELSE to_string([q[1] EXCEPT !.qualifiers = {}, !.subpath = ""])

unique_key_cachi2(c) == unique_key_cachi2_of(c, purl(c))

unique_key_syft_purl(q) ==
    [q EXCEPT !.name = IF q.type = "golang" /\ q.subpath # "" /\ subpath_is_version(q.subpath)
                       THEN q.name \o "/" \o q.subpath
                       ELSE IF q.type = "pypi" THEN Lower(q.name) ELSE q.name,
              !.version = IF q.type = "golang" /\ q.version # ""
                          THEN quote_plus(q.version) ELSE q.version,
              !.subpath = IF q.type = "golang" /\ q.subpath # "" /\ subpath_is_version(q.subpath)
                          THEN "" ELSE q.subpath]

unique_key_syft_of(c, q) ==
    IF q = <<>> THEN fallback_key(c) ELSE to_string(unique_key_syft_purl(q[1]))

unique_key_syft(c) == unique_key_syft_of(c, purl(c))

\* a set of cachi2 names that holds no name
no_non_registry_components(cachi2) == {}

\* the three collections _get_syft_component_filter builds from the cachi2 items
Cachi2NonRegistryComponents(cachi2) ==
    {cachi2[i].name : i \in {j \in DOMAIN cachi2 : is_cachi2_non_registry_dependency(cachi2[j])}}

Cachi2LocalPaths(cachi2) ==
    {purl(cachi2[i])[1].subpath :
        i \in {j \in DOMAIN cachi2 : purl(cachi2[j]) # <<>> /\ purl(cachi2[j])[1].subpath # ""}}

Cachi2IndexedKeys(cachi2) == {unique_key_cachi2(cachi2[i]) : i \in DOMAIN cachi2}

is_duplicate_npm_localpath(q, local_paths) ==
    IF q = <<>> \/ q[1].type # "npm" THEN FALSE ELSE q[1].name \in local_paths

\* component_is_duplicated of _get_syft_component_filter
component_is_duplicated(c, non_registry, local_paths, indexed) ==
    \/ is_syft_local_golang_component(c)
    \/ c.name \in non_registry
    \/ is_duplicate_npm_localpath(purl(c), local_paths)
    \/ unique_key_syft(c) \in indexed

FilterSyft(syft, non_registry, local_paths, indexed) ==
    SelectSeq(syft, LAMBDA c : ~component_is_duplicated(c, non_registry, local_paths, indexed))

\* a merge that keeps one item per key over both lists
merge_one_per_key(syft_components, cachi2_components) ==
    Unwrap(merge_chain(syft_components \o cachi2_components))

merge_by_prefering_cachi2(syft_components, cachi2_components) ==
    FilterSyft(syft_components, Cachi2NonRegistryComponents(cachi2_components),
               Cachi2LocalPaths(cachi2_components), Cachi2IndexedKeys(cachi2_components))
        \o cachi2_components

InitMerge ==
    /\ lfiles = <<>>
    /\ lindex = NoLayout
    /\ pfiles = <<>>
    /\ pindex = NoLayout
    /\ session = <<>>
    /\ failed = FALSE
    /\ \E a \in ItemLists(MaxItems) :
          \E b \in ItemLists(MaxItems - Len(a)) :
             last = [op |-> "none", a |-> a, b |-> b]
    /\ layerOf = <<>>
    /\ nops = 0
    /\ BuildIdle

MergeByApparentSameness ==
    /\ last.op = "none"
    /\ last' = [op |-> "apparent", a |-> last.a, b |-> last.b,
                result |-> merge_by_apparent_sameness(last.a, last.b)]
    /\ UNCHANGED <<lfiles, lindex, pfiles, pindex, session, failed, layerOf, nops, buildVars>>

MergeByPreferingCachi2 ==
    /\ last.op = "none"
    /\ last' = [op |-> "prefer", a |-> last.a, b |-> last.b,
                result |-> merge_by_prefering_cachi2(last.a, last.b)]
    /\ UNCHANGED <<lfiles, lindex, pfiles, pindex, session, failed, layerOf, nops, buildVars>>

NextMerge == MergeByApparentSameness \/ MergeByPreferingCachi2

SpecMerge == InitMerge /\ [][NextMerge]_vars

\* the positions of a list at which a key occurs for the first time
FirstOccurrences(items) ==
    {i \in DOMAIN items :
        \A j \in 1..(i - 1) : apparent_key(items[j]) # apparent_key(items[i])}

\* s is the list of the items of t at the positions pos, in the order of t
IsSelection(s, t, pos) ==
    /\ Len(s) = Cardinality(pos)
    /\ \E f \in [DOMAIN s -> pos] :
          /\ \A i, j \in DOMAIN s : i < j => f[i] < f[j]
          /\ \A i \in DOMAIN s : s[i] = t[f[i]]

(***************************************************************************)
(* C19: merge_by_apparent_sameness(a, b) is a \o b without the items whose *)
(* key occurred earlier in a \o b: every key of a or b occurs exactly once *)
(* in the result, the item kept for a key is the first one with that key,  *)
(* and the kept items are in the order of a \o b.                          *)
(***************************************************************************)
C19_ApparentSameness ==
    last.op = "apparent" =>
        /\ IsSelection(last.result, last.a \o last.b, FirstOccurrences(last.a \o last.b))
        /\ \A i \in DOMAIN (last.a \o last.b) :
              Cardinality({k \in DOMAIN last.result :
                              apparent_key(last.result[k])
                                  = apparent_key((last.a \o last.b)[i])}) = 1

\* an item of b is dropped for an item of a that has its key and is another item
C19_Witness ==
    /\ last.op = "apparent"
    /\ Len(last.a) >= 1
    /\ Len(last.b) >= 2
    /\ Len(last.result) = 2
    /\ last.result[1] = last.a[1]
    /\ last.b[1] # last.a[1]
    /\ apparent_key(last.b[1]) = apparent_key(last.a[1])
    /\ last.result[2] = last.b[2]

(***************************************************************************)
(* C20: merge_by_prefering_cachi2 returns the scanner items that pass the  *)
(* duplicate filter, in their order, followed by every cachi2 item in its  *)
(* order: no cachi2 item is dropped or moved and every item returned was   *)
(* in one of the inputs.                                                   *)
(***************************************************************************)
C20_PreferCachi2 ==
    last.op = "prefer" =>
        /\ Len(last.result) >= Len(last.b)
        /\ SubSeq(last.result, Len(last.result) - Len(last.b) + 1, Len(last.result)) = last.b
        /\ IsSelection(SubSeq(last.result, 1, Len(last.result) - Len(last.b)), last.a,
                       {i \in DOMAIN last.a :
                           ~component_is_duplicated(last.a[i],
                                                    Cachi2NonRegistryComponents(last.b),
                                                    Cachi2LocalPaths(last.b),
                                                    Cachi2IndexedKeys(last.b))})
        /\ \A k \in DOMAIN last.result :
              last.result[k] \in Range(last.a) \cup Range(last.b)

\* the scanner item is filtered out and two cachi2 items of one key both stay
C20_Witness ==
    /\ last.op = "prefer"
    /\ Len(last.a) = 1
    /\ Len(last.b) = 2
    /\ last.b[1] # last.b[2]
    /\ apparent_key(last.b[1]) = apparent_key(last.b[2])
    /\ Len(last.result) = 2

\* the key the merge of a scanner SBOM with a cachi2 SBOM compares items by: the written
\* purl without qualifiers and subpath, or the fallback key
QualifierlessKey(c) ==
    IF c.purl = <<>> \/ c.purl[1].type = ""
    THEN fallback_key(c)
    ELSE <<"pkg:", c.purl[1].type, "/", c.purl[1].name>>
            \o (IF c.purl[1].version = "" THEN <<>> ELSE <<"@", c.purl[1].version>>)

\* the scanner items of the result of a prefer-cachi2 merge
ScannerPart == SubSeq(last.result, 1, Len(last.result) - Len(last.b))

(***************************************************************************)
(* C21: in the prefer-cachi2 merge no scanner item whose qualifierless key *)
(* is the qualifierless key of a cachi2 item is in the output.             *)
(***************************************************************************)
C21_QualifierlessKeyDrops ==
    last.op = "prefer" =>
        \A i \in DOMAIN last.a :
            (\E j \in DOMAIN last.b : QualifierlessKey(last.a[i]) = QualifierlessKey(last.b[j]))
                => last.a[i] \notin Range(ScannerPart)

\* a cachi2 item is a non-registry dependency: pypi or npm with vcs_url or download_url
NonRegistry(c) ==
    /\ c.purl # <<>>
    /\ c.purl[1].type \in {"pypi", "npm"}
    /\ Range(c.purl[1].quals) \cap {"vcs_url", "download_url"} # {}

(***************************************************************************)
(* C22: when a cachi2 item of type pypi or npm carries a vcs_url or        *)
(* download_url qualifier, no scanner item of its name is in the output of *)
(* the prefer-cachi2 merge, whatever its version, and the cachi2 item is.  *)
(***************************************************************************)
C22_NonRegistryDrops ==
    last.op = "prefer" =>
        \A j \in DOMAIN last.b :
            NonRegistry(last.b[j]) =>
                /\ \A k \in DOMAIN ScannerPart : ScannerPart[k].name # last.b[j].name
                /\ last.b[j] \in Range(last.result)

\* a scanner item of the name and another version is dropped, one of another name stays
C22_Witness ==
    /\ last.op = "prefer"
    /\ Len(last.a) = 2
    /\ Len(last.b) = 1
    /\ NonRegistry(last.b[1])
    /\ last.a[1].name = last.b[1].name
    /\ last.a[1].version # last.b[1].version
    /\ last.result = <<last.a[2], last.b[1]>>

(***************************************************************************)
(* merge_spdx_sboms.  An SPDX document is its SPDXID, its packages (items  *)
(* whose id is the SPDXID of the package), its relationships, the creators *)
(* of its creationInfo and whether it has a files key.                     *)
(***************************************************************************)
MaxRels == 2

DocA == "SPDXRef-DOCUMENT"

DocB == "SPDXRef-DocumentRoot-cachi2"

Relationship(e, t, r) == [spdxElementId |-> e, relationshipType |-> t, relatedSpdxElement |-> r]

SpdxRelationships ==
    {Relationship(e, t, r) : e \in {DocA, DocB, "s3"}, t \in {"DESCRIBES", "CONTAINS"},
                             r \in {"s3", "c4", "SPDXRef-File"}}

RelationshipLists(n) == UNION {[1..k -> SpdxRelationships] : k \in 0..n}

SpdxDocument(id, packages, relationships, creators, files) ==
    [SPDXID |-> id, packages |-> packages, relationships |-> relationships,
     creators |-> creators, files |-> files]

\* a rewriting of SPDXIDs that leaves every SPDXID as it is
keep_spdxid(spdxid, a_id, b_id, merged_packages_ids) == <<spdxid>>

\* replace_spdxid of merge_spdx_sboms: <<>> is None
replace_spdxid(spdxid, a_id, b_id, merged_packages_ids) ==
    IF spdxid = b_id
    THEN <<a_id>>
    ELSE IF spdxid = a_id \/ spdxid \in merged_packages_ids
         THEN <<spdxid>>
         ELSE <<>>

\* the loop of _merge_spdx_relationships over chain(relationships_a, relationships_b)
RewriteRelationships(rels, a_id, b_id, ids) ==
    Unwrap(SelectSeq(
        [i \in DOMAIN rels |->
            [keep |-> /\ replace_spdxid(rels[i].spdxElementId, a_id, b_id, ids) # <<>>
                      /\ replace_spdxid(rels[i].relatedSpdxElement, a_id, b_id, ids) # <<>>,
             item |-> IF /\ replace_spdxid(rels[i].spdxElementId, a_id, b_id, ids) # <<>>
                         /\ replace_spdxid(rels[i].relatedSpdxElement, a_id, b_id, ids) # <<>>
                      THEN Relationship(
                               replace_spdxid(rels[i].spdxElementId, a_id, b_id, ids)[1],
                               rels[i].relationshipType,
                               replace_spdxid(rels[i].relatedSpdxElement, a_id, b_id, ids)[1])
                      ELSE rels[i]]],
        LAMBDA e : e.keep))

\* _dedupe(merged_relationships, (spdxElementId, relationshipType, relatedSpdxElement));
\* the relationships of the model hold these three keys only
merge_spdx_relationships(rels, a_id, b_id, ids) ==
    Unwrap(dedupe(RewriteRelationships(rels, a_id, b_id, ids),
                  RewriteRelationships(rels, a_id, b_id, ids)))

\* _merge_spdx_creation_info: the creators merged by identity
merge_spdx_creators(creators) == Unwrap(dedupe(creators, creators))

merge_spdx_documents(sbom_a, sbom_b, merged_packages) ==
    SpdxDocument(sbom_a.SPDXID, merged_packages,
                 merge_spdx_relationships(sbom_a.relationships \o sbom_b.relationships,
                                          sbom_a.SPDXID, sbom_b.SPDXID,
                                          {merged_packages[i].id : i \in DOMAIN merged_packages}),
                 merge_spdx_creators(sbom_a.creators \o sbom_b.creators),
                 FALSE)

\* merge_spdx_sboms(sbom_a, sbom_b, merge_components)
merge_spdx_sboms(sbom_a, sbom_b, strategy) ==
    merge_spdx_documents(sbom_a, sbom_b,
                         IF strategy = "apparent"
                         THEN merge_by_apparent_sameness(sbom_a.packages, sbom_b.packages)
                         ELSE merge_by_prefering_cachi2(sbom_a.packages, sbom_b.packages))

InitSpdx ==
    /\ lfiles = <<>>
    /\ lindex = NoLayout
    /\ pfiles = <<>>
    /\ pindex = NoLayout
    /\ session = <<>>
    /\ failed = FALSE
    /\ \E ra \in RelationshipLists(MaxRels) :
         \E rb \in RelationshipLists(MaxRels - Len(ra)) :
           \E b_id \in {DocA, DocB}, pb \in {<<>>, <<Component("c4", "bash", "5.1", <<>>)>>} :
              last = [op |-> "none",
                      a |-> SpdxDocument(DocA, <<Component("s3", "bash", "5.1", <<>>)>>, ra,
                                         <<"Tool: syft">>, TRUE),
                      b |-> SpdxDocument(b_id, pb, rb, <<"Tool: syft", "Tool: cachi2">>, FALSE)]
    /\ layerOf = <<>>
    /\ nops = 0
    /\ BuildIdle

MergeSpdxSboms ==
    /\ last.op = "none"
    /\ \E strategy \in {"apparent", "prefer"} :
          last' = [op |-> "spdx", a |-> last.a, b |-> last.b, strategy |-> strategy,
                   result |-> merge_spdx_sboms(last.a, last.b, strategy)]
    /\ UNCHANGED <<lfiles, lindex, pfiles, pindex, session, failed, layerOf, nops, buildVars>>

NextSpdx == MergeSpdxSboms

SpecSpdx == InitSpdx /\ [][NextSpdx]_vars

(***************************************************************************)
(* C23: after merge_spdx_sboms the document has the SPDXID of the left     *)
(* document, each end of every relationship is that SPDXID or the SPDXID   *)
(* of a merged package (no end is the other SPDXID of the right document   *)
(* or a dropped package), and no two relationships agree in                *)
(* (spdxElementId, relationshipType, relatedSpdxElement).                  *)
(***************************************************************************)
C23_SpdxRelationships ==
    last.op = "spdx" =>
        /\ last.result.SPDXID = last.a.SPDXID
        /\ \A i \in DOMAIN last.result.relationships :
              {last.result.relationships[i].spdxElementId,
               last.result.relationships[i].relatedSpdxElement}
                 \subseteq {last.a.SPDXID}
                             \cup {last.result.packages[k].id : k \in DOMAIN last.result.packages}
        /\ \A i, j \in DOMAIN last.result.relationships :
              (/\ last.result.relationships[i].spdxElementId
                     = last.result.relationships[j].spdxElementId
               /\ last.result.relationships[i].relationshipType
                     = last.result.relationships[j].relationshipType
               /\ last.result.relationships[i].relatedSpdxElement
                     = last.result.relationships[j].relatedSpdxElement) => i = j

\* the right document's DESCRIBES is rewritten to the left SPDXID and falls together
\* with the left document's, and the package of the right document is dropped
C23_Witness ==
    /\ last.op = "spdx"
    /\ last.b.SPDXID = DocB
    /\ last.a.relationships = <<Relationship(DocA, "DESCRIBES", "s3")>>
    /\ last.b.relationships = <<Relationship(DocB, "DESCRIBES", "s3")>>
    /\ last.result.relationships = <<Relationship(DocA, "DESCRIBES", "s3")>>
    /\ Len(last.b.packages) = 1
    /\ Len(last.result.packages) = 1

(***************************************************************************)
(* add_image_reference.py: the roots of an SPDX document are redirected to *)
(* the package of the image.  The relationships of a document are objects  *)
(* that are changed in place: objs holds every relationship object by the  *)
(* position it had when the loop started, order the objects that are in    *)
(* sbom["relationships"], in list order.                                   *)
(***************************************************************************)
SpdxPackage(id, name) == [SPDXID |-> id, name |-> name]

\* name.startswith("."), on the names of the packages
NameStartsWithDot(name) == name \in {"./some-dir"}

is_virtual_root(package) == package.name = "" \/ NameStartsWithDot(package.name)

describes_the_document(r, doc_spdx_id) ==
    r.spdxElementId = doc_spdx_id /\ r.relationshipType = "DESCRIBES"

PackagePositions(packages, spdx_id) == {k \in DOMAIN packages : packages[k].SPDXID = spdx_id}

\* delete_package_by_spdx_id: the first package of the id is removed
delete_package_by_spdx_id(packages, spdx_id) ==
    IF PackagePositions(packages, spdx_id) = {}
    THEN packages
    ELSE RemoveAt(packages, Min(PackagePositions(packages, spdx_id)))

RelatedPositions(order, objs, spdx_id) ==
    {k \in DOMAIN order : objs[order[k]].relatedSpdxElement = spdx_id}

\* delete_relationship_by_related_spdx_id: the first relationship whose
\* relatedSpdxElement is the id is removed
delete_relationship_by_related_spdx_id(order, objs, spdx_id) ==
    IF RelatedPositions(order, objs, spdx_id) = {}
    THEN order
    ELSE RemoveAt(order, Min(RelatedPositions(order, objs, spdx_id)))

\* redirect_virtual_root_to_new_root, on the relationships that are in the list
redirect_virtual_root_to_new_root(order, objs, virtual_root, new_root) ==
    [n \in DOMAIN objs |->
        IF n \in Range(order)
        THEN [objs[n] EXCEPT
                 !.spdxElementId = IF @ = virtual_root THEN new_root ELSE @,
                 !.relatedSpdxElement = IF @ = virtual_root THEN new_root ELSE @]
        ELSE objs[n]]

RemoveVirtualRoot(st, order, virtual_root, new_root) ==
    [st EXCEPT !.packages = delete_package_by_spdx_id(st.packages, virtual_root),
               !.order = order,
               !.objs = redirect_virtual_root_to_new_root(order, st.objs, virtual_root, new_root)]

\* the body of the loop of redirect_current_roots_to_new_root for the i-th relationship
\* of the copy; is_virtual_root(None) raises
RedirectRoot(st, doc_spdx_id, new_root, i) ==
    IF ~st.ok \/ ~describes_the_document(st.objs[i], doc_spdx_id)
    THEN st
    ELSE IF PackagePositions(st.packages, st.objs[i].relatedSpdxElement) = {}
         THEN [st EXCEPT !.ok = FALSE]
         ELSE IF is_virtual_root(
                     st.packages[Min(PackagePositions(st.packages,
                                                      st.objs[i].relatedSpdxElement))])
              THEN RemoveVirtualRoot(st,
                       delete_relationship_by_related_spdx_id(
                           st.order, st.objs, st.objs[i].relatedSpdxElement),
                       st.objs[i].relatedSpdxElement, new_root)
              ELSE [st EXCEPT !.objs[i].spdxElementId = new_root,
                              !.objs[i].relationshipType = "CONTAINS"]

RECURSIVE RedirectLoop(_, _, _, _)
RedirectLoop(st, doc_spdx_id, new_root, i) ==
    IF i > Len(st.objs)
    THEN st
    ELSE RedirectLoop(RedirectRoot(st, doc_spdx_id, new_root, i), doc_spdx_id, new_root, i + 1)

RelationshipsOf(st) == [k \in DOMAIN st.order |-> st.objs[st.order[k]]]

RootsDocument(st, doc_spdx_id) ==
    [SPDXID |-> doc_spdx_id, packages |-> st.packages, relationships |-> RelationshipsOf(st),
     ok |-> st.ok]

redirect_current_roots_to_new_root(sbom, new_root) ==
    RootsDocument(RedirectLoop([packages |-> sbom.packages, objs |-> sbom.relationships,
                                order |-> [k \in DOMAIN sbom.relationships |-> k], ok |-> TRUE],
                               sbom.SPDXID, new_root, 1),
                  sbom.SPDXID)

PrependDescribes(sbom, spdx_id) ==
    IF sbom.ok
    THEN [sbom EXCEPT !.relationships =
                         <<Relationship(sbom.SPDXID, "DESCRIBES", spdx_id)>> \o @]
    ELSE sbom

update_package_in_spdx_sbom(sbom, image_name) ==
    PrependDescribes(
        redirect_current_roots_to_new_root(
            [sbom EXCEPT !.packages = <<SpdxPackage("SPDXRef-image", image_name)>> \o @],
            "SPDXRef-image"),
        "SPDXRef-image")

\* the packages of a scanned document: two virtual roots, a root of a name, a package
\* whose name starts with "/", the packages below the roots
RootPackages ==
    << SpdxPackage("virtual", ""), SpdxPackage("virtual2", "./some-dir"),
       SpdxPackage("npm", "npm"), SpdxPackage("slash", "/foo"),
       SpdxPackage("bar", "bar"), SpdxPackage("baz", "baz") >>

RootRelationships ==
    {Relationship(DocA, "DESCRIBES", r) : r \in {"virtual", "virtual2", "npm", "slash"}}
    \cup {Relationship("virtual", "CONTAINS", "baz"), Relationship("npm", "CONTAINS", "baz"),
          Relationship("baz", "DEPENDENCY_OF", "virtual")}

InitRoots ==
    /\ lfiles = <<>>
    /\ lindex = NoLayout
    /\ pfiles = <<>>
    /\ pindex = NoLayout
    /\ session = <<>>
    /\ failed = FALSE
    /\ \E k \in 0..(MaxRels + 1) :
         \E rels \in [1..k -> RootRelationships] :
            /\ \A i, j \in 1..k : rels[i] = rels[j] => i = j
            /\ last = [op |-> "none",
                       sbom |-> [SPDXID |-> DocA, packages |-> RootPackages,
                                 relationships |-> rels]]
    /\ layerOf = <<>>
    /\ nops = 0
    /\ BuildIdle

\* redirect_current_roots_to_new_root(sbom, "bar")
RedirectCurrentRoots ==
    /\ last.op = "none"
    /\ last' = [op |-> "redirect", sbom |-> last.sbom, new_root |-> "bar",
                result |-> redirect_current_roots_to_new_root(last.sbom, "bar")]
    /\ UNCHANGED <<lfiles, lindex, pfiles, pindex, session, failed, layerOf, nops, buildVars>>

\* update_package_in_spdx_sbom(sbom, image)
UpdatePackageInSpdxSbom ==
    /\ last.op = "none"
    /\ last' = [op |-> "update", sbom |-> last.sbom, new_root |-> "SPDXRef-image",
                result |-> update_package_in_spdx_sbom(last.sbom, "image")]
    /\ UNCHANGED <<lfiles, lindex, pfiles, pindex, session, failed, layerOf, nops, buildVars>>

NextRoots == RedirectCurrentRoots \/ UpdatePackageInSpdxSbom

SpecRoots == InitRoots /\ [][NextRoots]_vars

(***************************************************************************)
(* C24: after update_package_in_spdx_sbom exactly one relationship leads   *)
(* from the SPDXID of the document by DESCRIBES, and it leads to           *)
(* SPDXRef-image.                                                          *)
(***************************************************************************)
C24_OneDescribes ==
    (last.op = "update" /\ last.result.ok) =>
        /\ Cardinality({k \in DOMAIN last.result.relationships :
                           describes_the_document(last.result.relationships[k], DocA)}) = 1
        /\ \A k \in DOMAIN last.result.relationships :
              describes_the_document(last.result.relationships[k], DocA)
                  => last.result.relationships[k].relatedSpdxElement = "SPDXRef-image"

\* the SPDXIDs of the virtual roots the document describes
VirtualRoots(sbom) ==
    {sbom.relationships[k].relatedSpdxElement :
        k \in {j \in DOMAIN sbom.relationships :
                  /\ describes_the_document(sbom.relationships[j], sbom.SPDXID)
                  /\ \E q \in Range(sbom.packages) :
                        /\ q.SPDXID = sbom.relationships[j].relatedSpdxElement
                        /\ (q.name = "" \/ q.name = "./some-dir")}}

\* what becomes of a relationship that is not a DESCRIBES of a virtual root
Redirected(r, sbom, new_root) ==
    IF describes_the_document(r, sbom.SPDXID)
    THEN Relationship(new_root, "CONTAINS", r.relatedSpdxElement)
    ELSE Relationship(IF r.spdxElementId \in VirtualRoots(sbom) THEN new_root
                      ELSE r.spdxElementId,
                      r.relationshipType,
                      IF r.relatedSpdxElement \in VirtualRoots(sbom) THEN new_root
                      ELSE r.relatedSpdxElement)

DescribesVirtualRoot(r, sbom) ==
    describes_the_document(r, sbom.SPDXID) /\ r.relatedSpdxElement \in VirtualRoots(sbom)

(***************************************************************************)
(* C25: redirect_current_roots_to_new_root removes every virtual root the  *)
(* document describes together with the DESCRIBES relationship to it and   *)
(* lets every other relationship name the new root in its place; the       *)
(* DESCRIBES relationship to a root that is not virtual becomes            *)
(* <new root> CONTAINS <root>; everything else stays, in its order.        *)
(***************************************************************************)
C25_RootsRedirected ==
    (last.op = "redirect" /\ last.result.ok) =>
        /\ last.result.packages
              = SelectSeq(last.sbom.packages, LAMBDA q : q.SPDXID \notin VirtualRoots(last.sbom))
        /\ last.result.relationships
              = [k \in DOMAIN SelectSeq(last.sbom.relationships,
                                        LAMBDA r : ~DescribesVirtualRoot(r, last.sbom)) |->
                    Redirected(SelectSeq(last.sbom.relationships,
                                         LAMBDA r : ~DescribesVirtualRoot(r, last.sbom))[k],
                               last.sbom, last.new_root)]

(***************************************************************************)
(* base_images_sbom_script.py: the base images of a build file and their   *)
(* CycloneDX components.  Image references are token sequences as above.   *)
(***************************************************************************)
MaxStages == 3

ScratchImage == <<"scratch">>
OciArchiveImage == <<"oci-archive", ":", "export", "/", "out.ociarchive">>
AppV1 == <<"quay.io", "/", "ns", "/", "app", ":", "v1">>
AppLatest == <<"quay.io", "/", "ns", "/", "app", ":", "latest">>
UbiLatest == <<"registry", ":", "5000", "/", "ubi8", "/", "ubi", ":", "latest">>
RealImages == {AppV1, AppLatest, UbiLatest}

\* the output of "buildah images": the reference with its digest; both tags
\* of the app image name the same manifest
DigestOf(image) ==
    IF image = UbiLatest
    THEN image \o <<"@", "sha256", ":", "bbb">>
    ELSE image \o <<"@", "sha256", ":", "aaa">>

\* the digests file with the lines of the images in known
DigestsOf(known) == [image \in known |-> DigestOf(image)]

ParsedImage(repository, digest, name) ==
    [repository |-> repository, digest |-> digest, name |-> name]

\* parse_image_reference_to_parts(image)
parse_image_reference_to_parts(image) ==
    ParsedImage(RSplit1(Split(image, "@")[1], ":")[1],
                Split(image, "@")[2],
                Split(RSplit1(Split(image, "@")[1], ":")[1], "/")
                    [Len(Split(RSplit1(Split(image, "@")[1], ":")[1], "/"))])

\* PackageURL(type="oci", name, version=digest,
\*            qualifiers={"repository_url": repository}).to_string(); the
\* percent-encoding of the qualifier value is one-to-one and left out
OciPurl(parsed) ==
    <<"pkg", ":", "oci", "/">> \o parsed.name \o <<"@">> \o parsed.digest
        \o <<"?", "repository_url", "=">> \o parsed.repository

IsPseudoBase(image) == image[1] = "oci-archive" \/ image = ScratchImage

IsBaseImageProperty == [name |-> "konflux:container:is_base_image", value |-> "true"]

BuilderImageProperty(index) ==
    [name |-> "konflux:container:is_builder_image:for_stage", value |-> ToString(index)]

\* a comparison with len(base_images) instead of len(base_images) - 1
stage_property_off_by_one(index, base_images) ==
    IF index = Len(base_images) THEN IsBaseImageProperty ELSE BuilderImageProperty(index)

\* the property of the stage at the 0-based index
stage_property(index, base_images) ==
    IF index = Len(base_images) - 1 THEN IsBaseImageProperty ELSE BuilderImageProperty(index)

CDXComponent(parsed, property) ==
    [type |-> "container", name |-> parsed.repository, purl |-> OciPurl(parsed),
     properties |-> <<property>>]

\* a component for every use of an image
add_base_image_always(components, component) == Append(components, component)

\* the component is new, or its property joins the component of the same purl
add_base_image(components, component) ==
    IF \E i \in 1..Len(components) : components[i].purl = component.purl
    THEN [i \in 1..Len(components) |->
            IF components[i].purl = component.purl
            THEN [components[i] EXCEPT !.properties = @ \o component.properties]
            ELSE components[i]]
    ELSE Append(components, component)

RECURSIVE ComponentsLoop(_, _, _, _)
ComponentsLoop(base_images, base_images_digests, index, components) ==
    IF index >= Len(base_images)
    THEN components
    ELSE IF IsPseudoBase(base_images[index + 1])
    THEN ComponentsLoop(base_images, base_images_digests, index + 1, components)
    ELSE IF base_images[index + 1] \notin DOMAIN base_images_digests
    THEN ComponentsLoop(base_images, base_images_digests, index + 1, components)
    ELSE ComponentsLoop(base_images, base_images_digests, index + 1,
            add_base_image(components,
                CDXComponent(
                    parse_image_reference_to_parts(base_images_digests[base_images[index + 1]]),
                    stage_property(index, base_images))))

get_base_images_sbom_components(base_images, base_images_digests) ==
    ComponentsLoop(base_images, base_images_digests, 0, <<>>)

\* the From of a stage of the parsed build file
FromImage(image) == [kind |-> "Image", image |-> image, index |-> -1]
FromScratch == [kind |-> "Scratch", image |-> <<>>, index |-> -1]
FromStage(index) == [kind |-> "Stage", image |-> <<>>, index |-> index]

\* the while loop over From.Stage.Index: <<image>>, or <<>> when the chain
\* ends in a stage without From.Image (KeyError)
RECURSIVE FollowStage(_, _)
FollowStage(stages, stage_index) ==
    IF stages[stage_index + 1].kind = "Stage"
    THEN FollowStage(stages, stages[stage_index + 1].index)
    ELSE IF stages[stage_index + 1].kind = "Image"
    THEN <<stages[stage_index + 1].image>>
    ELSE <<>>

\* the entry of one stage
StageBaseImage(stages, i) ==
    IF stages[i].kind = "Image" THEN <<stages[i].image>>
    ELSE IF stages[i].kind = "Scratch" THEN <<ScratchImage>>
    ELSE FollowStage(stages, stages[i].index)

\* get_base_images_from_dockerfile(parsed_dockerfile): ok is FALSE when the
\* KeyError leaves the function
get_base_images_from_dockerfile(stages) ==
    IF \E i \in 1..Len(stages) : StageBaseImage(stages, i) = <<>>
    THEN [ok |-> FALSE, base_images |-> <<>>]
    ELSE [ok |-> TRUE, base_images |-> [i \in 1..Len(stages) |-> StageBaseImage(stages, i)[1]]]

\* the stages a build file can have at the 0-based position i
StagesAt(i) ==
    {FromImage(image) : image \in RealImages \cup {OciArchiveImage}}
        \cup {FromScratch} \cup {FromStage(j) : j \in 0..(i - 1)}

StageLists(n) ==
    UNION {{s \in [1..k -> StagesAt(n)] : \A i \in 1..k : s[i] \in StagesAt(i - 1)} : k \in 0..n}

InitBaseImages ==
    /\ lfiles = <<>>
    /\ lindex = NoLayout
    /\ pfiles = <<>>
    /\ pindex = NoLayout
    /\ session = <<>>
    /\ failed = FALSE
    /\ \E stages \in StageLists(MaxStages) :
         \E known \in SUBSET RealImages :
            last = [op |-> "none", stages |-> stages,
                    base_images_digests |-> DigestsOf(known)]
    /\ layerOf = <<>>
    /\ nops = 0
    /\ BuildIdle

\* main(): base_images = get_base_images_from_dockerfile(parsed_dockerfile)
GetBaseImagesFromDockerfile ==
    /\ last.op = "none"
    /\ \E r \in {get_base_images_from_dockerfile(last.stages)} :
         last' = [op |-> IF r.ok THEN "base_images" ELSE "KeyError",
                  stages |-> last.stages,
                  base_images_digests |-> last.base_images_digests,
                  base_images |-> r.base_images]
    /\ UNCHANGED <<lfiles, lindex, pfiles, pindex, session, failed, layerOf, nops, buildVars>>

\* main(): get_base_images_sbom_components(base_images, base_images_digests)
GetBaseImagesSbomComponents ==
    /\ last.op = "base_images"
    /\ last' = [op |-> "components",
                stages |-> last.stages,
                base_images_digests |-> last.base_images_digests,
                base_images |-> last.base_images,
                components |-> get_base_images_sbom_components(
                                   last.base_images, last.base_images_digests)]
    /\ UNCHANGED <<lfiles, lindex, pfiles, pindex, session, failed, layerOf, nops, buildVars>>

NextBaseImages == GetBaseImagesFromDockerfile \/ GetBaseImagesSbomComponents

SpecBaseImages == InitBaseImages /\ [][NextBaseImages]_vars

\* the 1-based positions of the stages that get a property: real and with a digest
UsedStages(base_images, base_images_digests) ==
    {i \in 1..Len(base_images) :
        ~IsPseudoBase(base_images[i]) /\ base_images[i] \in DOMAIN base_images_digests}

PurlOfStage(base_images, base_images_digests, i) ==
    OciPurl(parse_image_reference_to_parts(base_images_digests[base_images[i]]))

\* the (component, property) positions that hold is_base_image
BaseImageMarks(components) ==
    {p \in UNION {{<<c, k>> : k \in 1..Len(components[c].properties)} :
                    c \in 1..Len(components)} :
        components[p[1]].properties[p[2]] = IsBaseImageProperty}

\* the component of the stage i holds is_base_image
MarkedAsBase(components, base_images, base_images_digests, i) ==
    \E p \in BaseImageMarks(components) :
        components[p[1]].purl = PurlOfStage(base_images, base_images_digests, i)

RealStages(base_images) == {i \in 1..Len(base_images) : ~IsPseudoBase(base_images[i])}

(***************************************************************************)
(* C26: is_base_image is given to the image of the final stage when that   *)
(* stage is a real image and, when the stage list ends in a pseudo-stage   *)
(* (scratch or oci-archive), to the last real image before it; every       *)
(* other use of an image gets is_builder_image:for_stage.  (Stated for     *)
(* stages that have a digest: the others get no property at all.)          *)
(***************************************************************************)
C26_BaseBeforePseudoStage ==
    last.op = "components" =>
        /\ \A i \in UsedStages(last.base_images, last.base_images_digests) :
             i = Max(RealStages(last.base_images)) =>
                MarkedAsBase(last.components, last.base_images, last.base_images_digests, i)
        /\ Cardinality(BaseImageMarks(last.components)) <= 1

(***************************************************************************)
(* C26 as amended: is_base_image is given to the image of the final stage  *)
(* when that stage is a real image; when the stage list ends in a          *)
(* pseudo-stage no image gets is_base_image; every other use of an image   *)
(* gets is_builder_image:for_stage.                                        *)
(***************************************************************************)
C26_BaseIsFinalRealStage ==
    last.op = "components" =>
        /\ \A i \in UsedStages(last.base_images, last.base_images_digests) :
             i = Len(last.base_images) =>
                MarkedAsBase(last.components, last.base_images, last.base_images_digests, i)
        /\ Cardinality(BaseImageMarks(last.components)) <= 1
        /\ \A p \in BaseImageMarks(last.components) :
             /\ Len(last.base_images) \in UsedStages(last.base_images, last.base_images_digests)
             /\ last.components[p[1]].purl =
                    PurlOfStage(last.base_images, last.base_images_digests, Len(last.base_images))
             /\ p[2] = Len(last.components[p[1]].properties)

\* a build file of two uses of an image and a final scratch stage: both uses
\* are builder stages
C26_Witness ==
    /\ last.op = "components"
    /\ last.base_images = <<AppV1, UbiLatest, ScratchImage>>
    /\ DOMAIN last.base_images_digests = RealImages
    /\ Len(last.components) = 2
    /\ BaseImageMarks(last.components) = {}

\* the stages among S that use the image of the purl
UsesOf(purl_str, base_images, base_images_digests) ==
    {i \in UsedStages(base_images, base_images_digests) :
        PurlOfStage(base_images, base_images_digests, i) = purl_str}

\* the k-th smallest element of a set of numbers
NthOf(S, k) == CHOOSE x \in S : Cardinality({y \in S : y < x}) = k - 1

(***************************************************************************)
(* C27: get_base_images_sbom_components returns exactly one component per  *)
(* distinct purl among the stages that are not pseudo-bases and have an    *)
(* entry in the digest map, ordered by first use; the properties of a      *)
(* component have one entry per such stage that uses the image, in stage   *)
(* order; the value of every is_builder_image:for_stage property is the    *)
(* position of its stage in the full stage list (counted from 0, with      *)
(* pseudo-stages and skipped stages counted).                              *)
(***************************************************************************)
C27_OneComponentPerPurl ==
    last.op = "components" =>
        /\ {last.components[c].purl : c \in 1..Len(last.components)} =
              {PurlOfStage(last.base_images, last.base_images_digests, i) :
                  i \in UsedStages(last.base_images, last.base_images_digests)}
        /\ \A c, d \in 1..Len(last.components) :
              c < d =>
                 /\ last.components[c].purl # last.components[d].purl
                 /\ Min(UsesOf(last.components[c].purl, last.base_images, last.base_images_digests))
                      < Min(UsesOf(last.components[d].purl, last.base_images, last.base_images_digests))
        /\ \A c \in 1..Len(last.components) :
              /\ Len(last.components[c].properties) =
                    Cardinality(UsesOf(last.components[c].purl, last.base_images,
                                       last.base_images_digests))
              /\ \A k \in 1..Len(last.components[c].properties) :
                    \/ last.components[c].properties[k] = IsBaseImageProperty
                    \/ last.components[c].properties[k] =
                          BuilderImageProperty(
                              NthOf(UsesOf(last.components[c].purl, last.base_images,
                                           last.base_images_digests), k) - 1)

\* a scratch stage, then two tags of one image: one component whose first
\* property counts the scratch stage
C27_Witness ==
    /\ last.op = "components"
    /\ last.base_images = <<ScratchImage, AppV1, AppLatest>>
    /\ Len(last.components) = 1
    /\ last.components[1].properties = <<BuilderImageProperty(1), IsBaseImageProperty>>

\* the 1-based position of the stage the From.Stage links of stage i lead to
RECURSIVE LinkTarget(_, _)
LinkTarget(stages, i) ==
    IF stages[i].kind = "Stage" THEN LinkTarget(stages, stages[i].index + 1) ELSE i

(***************************************************************************)
(* C28: for every stage list in which each From.Stage index points to an   *)
(* earlier stage, get_base_images_from_dockerfile returns exactly one      *)
(* entry per stage, in stage order: the image of the stage, "scratch" for  *)
(* a scratch stage, and for a stage built from an earlier stage the image  *)
(* of the first stage with From.Image that the From.Stage links reach.     *)
(***************************************************************************)
C28_OneEntryPerStage ==
    last.op # "none" =>
        /\ last.op # "KeyError"
        /\ Len(last.base_images) = Len(last.stages)
        /\ \A i \in 1..Len(last.stages) :
              /\ last.stages[i].kind = "Image" => last.base_images[i] = last.stages[i].image
              /\ last.stages[i].kind = "Scratch" => last.base_images[i] = ScratchImage
              /\ last.stages[i].kind = "Stage" =>
                    /\ last.stages[LinkTarget(last.stages, i)].kind = "Image"
                    /\ last.base_images[i] = last.stages[LinkTarget(last.stages, i)].image

\* the steps of build() before the merge has finished
BeforeMergeDone ==
    {"start", "base", "vr_config", "vr_probe", "mf_digest", "mf_probe", "download",
     "prefetch", "dest", "bsi", "dedup", "merge"}

(***************************************************************************)
(* C29: in every run of build the external builder produces the local      *)
(* source image; then deduplication runs if and only if parent sources     *)
(* were downloaded and dependencies_included is true; then the merge runs  *)
(* if and only if parent sources were downloaded; then the push.           *)
(* Deduplication never runs after the merge, nothing is pushed before the  *)
(* merge has finished, and base_image_source_included is true exactly      *)
(* when the merge ran.                                                     *)
(***************************************************************************)
C29_BuildOrder ==
    [][/\ (pc = "bsi" /\ pc' \notin {"bsi", "raised"}) =>
             pc' = IF bld.parent_sources_dir /\ build_result.dependencies_included
                   THEN "dedup"
                   ELSE IF bld.parent_sources_dir THEN "merge" ELSE "push"
       /\ (pc' = "dedup" /\ pc # "dedup") => pc = "bsi"
       /\ (pc' = "merge" /\ pc # "merge") => pc \in {"bsi", "dedup"}
       /\ (pc' = "push" /\ pc # "push") => pc \in {"bsi", "merge"}
       /\ pc = "dedup" => pc' \in {"dedup", "merge", "raised"}
       /\ pc = "merge" => pc' \in {"merge", "push", "raised"}
       /\ pc \in {"push", "built"} => pc' \notin BeforeMergeDone
       /\ pushed' # pushed => pc = "push"
       /\ pc' \in BeforeMergeDone => pushed' = <<>>
       /\ pc' \in BeforeMergeDone => ~build_result'.base_image_source_included
       /\ pc' \in {"push", "built"} =>
             (build_result'.base_image_source_included <=> bld'.parent_sources_dir)
      ]_vars

\* a build with parent sources and prefetched dependencies that pushed both
\* references after deduplication and merge
C29_Witness ==
    /\ pc = "built"
    /\ bld.parent_sources_dir
    /\ build_result.dependencies_included
    /\ build_result.base_image_source_included
    /\ Len(pushed) = 2

(***************************************************************************)
(* make_source_archive.  The working tree is the set of tracked files      *)
(* with uncommitted changes; the stash is the stack of change sets that    *)
(* git stash holds, the newest first.                                      *)
(***************************************************************************)
TrackedFiles == {"README.md", "main.py", "setup.py"}

\* the stash of the repository when the task starts
EarlierStashes == {<<>>, <<{"main.py"}>>}

\* git stash: without local changes it saves nothing
git_stash(worktree, stash) ==
    IF worktree = {}
    THEN [worktree |-> worktree, stash |-> stash]
    ELSE [worktree |-> {}, stash |-> <<worktree>> \o stash]

\* git stash pop on a clean working tree: without a stash entry it fails
git_stash_pop(worktree, stash) ==
    IF stash = <<>>
    THEN [worktree |-> worktree, stash |-> stash]
    ELSE [worktree |-> worktree \cup Head(stash), stash |-> Tail(stash)]

InitArchive ==
    /\ lfiles = <<>>
    /\ lindex = NoLayout
    /\ pfiles = <<>>
    /\ pindex = NoLayout
    /\ session = <<>>
    /\ failed = FALSE
    /\ \E worktree \in SUBSET TrackedFiles :
         \E stash \in EarlierStashes :
            last = [op |-> "repo_info", worktree |-> worktree, stash |-> stash,
                    original |-> [worktree |-> worktree, stash |-> stash],
                    stashed |-> FALSE, archive |-> <<>>, extra_src_dirs |-> <<>>]
    /\ layerOf = <<>>
    /\ nops = 0
    /\ BuildIdle

ArchiveUnchanged ==
    UNCHANGED <<lfiles, lindex, pfiles, pindex, session, failed, layerOf, nops, buildVars>>

\* repo_info = get_repo_info(source_dir): git commands run with check=True
GetRepoInfo ==
    /\ last.op = "repo_info"
    /\ \/ last' = [last EXCEPT !.op = "stash"]
       \/ last' = [last EXCEPT !.op = "CalledProcessError"]
    /\ ArchiveUnchanged

\* run(["git", "stash"], check=True)
GitStash ==
    /\ last.op = "stash"
    /\ \/ \E r \in {git_stash(last.worktree, last.stash)} :
             last' = [last EXCEPT !.op = "show", !.worktree = r.worktree,
                                  !.stash = r.stash, !.stashed = TRUE]
       \/ last' = [last EXCEPT !.op = "CalledProcessError"]
    /\ ArchiveUnchanged

\* run(["git", "show", "-s", "--format=%cI"], check=True)
GitShow ==
    /\ last.op = "show"
    /\ \/ last' = [last EXCEPT !.op = "ls_files"]
       \/ last' = [last EXCEPT !.op = "CalledProcessError"]
    /\ ArchiveUnchanged

\* run(["git", "ls-files", "--recurse-submodules"], check=True)
GitLsFiles ==
    /\ last.op = "ls_files"
    /\ \/ last' = [last EXCEPT !.op = "tar"]
       \/ last' = [last EXCEPT !.op = "CalledProcessError"]
    /\ ArchiveUnchanged

\* run(tar_cmd, input=<file list>, check=True): the archive holds the files as
\* they are in the working tree
TarArchive ==
    /\ last.op = "tar"
    /\ \/ last' = [last EXCEPT !.op = "pop", !.archive = <<[changed |-> last.worktree]>>]
       \/ last' = [last EXCEPT !.op = "CalledProcessError"]
    /\ ArchiveUnchanged

\* run(["git", "stash", "pop"]): no check, a failure is not noticed
GitStashPop ==
    /\ last.op = "pop"
    /\ \/ \E r \in {git_stash_pop(last.worktree, last.stash)} :
             last' = [last EXCEPT !.op = "append", !.worktree = r.worktree,
                                  !.stash = r.stash]
       \/ last' = [last EXCEPT !.op = "append"]
    /\ ArchiveUnchanged

\* sib_dirs.extra_src_dirs.append(source_archive_dir)
AppendSourceArchiveDir ==
    /\ last.op = "append"
    /\ last' = [last EXCEPT !.op = "return", !.extra_src_dirs = <<"source_archive">>]
    /\ ArchiveUnchanged

NextArchive ==
    \/ GetRepoInfo
    \/ GitStash
    \/ GitShow
    \/ GitLsFiles
    \/ TarArchive
    \/ GitStashPop
    \/ AppendSourceArchiveDir

SpecArchive == InitArchive /\ [][NextArchive]_vars

(***************************************************************************)
(* C30: in make_source_archive the uncommitted changes of the working tree *)
(* are set aside before the file list and the archive are produced, and on *)
(* every way out of the function after that point, normal return or        *)
(* failure of a later step, the changes that were set aside are back in    *)
(* the working tree.                                                       *)
(***************************************************************************)
C30_ChangesRestored ==
    /\ last.op \in {"ls_files", "tar"} => last.worktree = {}
    /\ last.archive # <<>> => last.archive[1].changed = {}
    /\ (last.op \in {"return", "CalledProcessError"} /\ last.stashed) =>
          last.worktree = last.original.worktree

====
